---- MODULE Spec2Model ----
(***************************************************************************)
(* Model of the agent orchestrator: the supervisor (src/src/runtime.rs),   *)
(* the agent worker loop and the output parser (src/src/agent.rs), the     *)
(* listener's peer check (src/src/transport/unix.rs) and the backend       *)
(* event stream (src/src/backend/mod.rs).                                  *)
(*                                                                         *)
(* Text is a sequence of tokens.  A token stands for a literal piece of    *)
(* text: a recognized prefix ("TASK:"), the literal "developer-", one      *)
(* decimal digit, "+", one space, one line feed, or a word ("x") that is   *)
(* none of these.  Durations are whole seconds.                            *)
(***************************************************************************)
EXTENDS Integers, Sequences, FiniteSets, TLC

\* ---------------------------------------------------------------- bounds

\* Scaled capacity of a backend's output channel (mpsc::channel(256)).
OutputCap == 2
\* Lines per generated text block.
MaxLines == 3
\* Scaled capacity of the supervisor's command channel (mpsc::channel(64)).
CmdCap == 2
\* Scaled capacity of a worker's outbound channel (mpsc::channel(64)).
OutCap == 2
\* The clock stops advancing here.
MaxTime == 62
\* Worker tasks of one AgentId that exist at once (a replaced one may outlive
\* its abort for a while).
MaxTasks == 2
\* Records kept in the task log.
MaxLog == 2
\* Connections the listeners of the whole system accept in one run.
MaxConns == 1
\* Connections the listener of a standalone agent accepts in one run.
MaxAgentConns == 2
\* Scaled capacity of a standalone agent's outbound channel (mpsc::channel(64)).
MaxAgentOut == 2

\* ------------------------------------------------------- types/agent.rs

AgentRole == {"manager", "architect", "developer", "scorer"}

\* Developers use index 0-2 (types/agent.rs:40, main.rs:195).
MaxDevelopers == 3

new_singleton(role) == [role |-> role, index |-> 0]

new_developer(index) == [role |-> "developer", index |-> index]

Manager == new_singleton("manager")
Architect == new_singleton("architect")
Scorer == new_singleton("scorer")

\* The ids the supervisor ever gives a worker.
AgentIds ==
    {Manager, Architect, Scorer} \cup {new_developer(i) : i \in 0..(MaxDevelopers - 1)}

\* Option<T> is a sequence of length at most one.
None == <<>>
Some(x) == <<x>>

\* ------------------------------------------------------------ text

SP == " "
NL == "\n"
Whitespace == {SP, NL}
DigitTokens == <<"0", "1", "2", "3", "4", "5", "6", "7", "8", "9">>
IsDigit(tok) == \E i \in 1..10 : DigitTokens[i] = tok
\* char::to_digit(10)
to_digit(tok) == (CHOOSE i \in 1..10 : DigitTokens[i] = tok) - 1

RECURSIVE trim_start(_)
trim_start(s) ==
    IF s # <<>> /\ Head(s) \in Whitespace THEN trim_start(Tail(s)) ELSE s

RECURSIVE trim_end(_)
trim_end(s) ==
    IF s # <<>> /\ s[Len(s)] \in Whitespace
    THEN trim_end(SubSeq(s, 1, Len(s) - 1))
    ELSE s

trim(s) == trim_end(trim_start(s))

\* str::lines(): the pieces between line feeds; a final empty piece is no line.
RECURSIVE SplitLines(_, _, _)
SplitLines(text, cur, acc) ==
    IF text = <<>>
    THEN IF cur = <<>> THEN acc ELSE Append(acc, cur)
    ELSE IF Head(text) = NL
         THEN SplitLines(Tail(text), <<>>, Append(acc, cur))
         ELSE SplitLines(Tail(text), Append(cur, Head(text)), acc)

lines(text) == SplitLines(text, <<>>, <<>>)

RECURSIVE DecimalValue(_, _)
DecimalValue(s, acc) ==
    IF s = <<>> THEN acc ELSE DecimalValue(Tail(s), 10 * acc + to_digit(Head(s)))

\* A parse that saturates at u8::MAX instead of failing.
parse_u8_saturating(s) ==
    LET digits == IF s # <<>> /\ Head(s) = "+" THEN Tail(s) ELSE s
    IN  IF digits = <<>> \/ \E i \in 1..Len(digits) : ~IsDigit(digits[i])
        THEN None
        ELSE IF DecimalValue(digits, 0) > 255 THEN Some(255)
             ELSE Some(DecimalValue(digits, 0))

\* str::parse::<u8>(): an optional "+", then one or more digits, value at most
\* 255.  The result is an Option.
parse_u8(s) ==
    LET digits == IF s # <<>> /\ Head(s) = "+" THEN Tail(s) ELSE s
    IN  IF digits = <<>> \/ \E i \in 1..Len(digits) : ~IsDigit(digits[i])
        THEN None
        ELSE IF DecimalValue(digits, 0) > 255 THEN None
             ELSE Some(DecimalValue(digits, 0))

\* ------------------------------------------------- agent.rs: the parser

ALL_PREFIXES ==
    <<"CREW:", "RELIEVE:", "TASK:", "APPROVED:", "REJECTED:",
      "COMPLETE:", "BLOCKED:", "INTERRUPT:", "EVALUATION:", "OBSERVATION:">>

SINGLE_LINE_PREFIXES == {"CREW:", "RELIEVE:"}

\* (prefix, target_role, kind, require_from_role)
ROUTES ==
    << <<"TASK:", "architect", "task_assignment", None>>,
       <<"REJECTED:", "manager", "architect_review", None>>,
       <<"INTERRUPT:", "developer", "interrupt", Some("architect")>> >>

\* AgentMessage::new: task_id is None.  The random id is left out.
NewMessage(from, to, kind, content) ==
    [from |-> from, to |-> to, kind |-> kind, content |-> content, task_id |-> None]

MessageOut(m) == [type |-> "Message", msg |-> m]
CommandOut(c) == [type |-> "Command", cmd |-> c]

SetCrewSize(count) == [type |-> "SetCrewSize", count |-> count]
RelieveManager(reason) == [type |-> "RelieveManager", reason |-> reason]
TaskUpdate(agent, status, summary) ==
    [type |-> "TaskUpdate", agent |-> agent, status |-> status, summary |-> summary]

\* The first prefix of ALL_PREFIXES the line starts with, as an Option.
recognized_prefix(line) ==
    IF line # <<>> /\ \E i \in 1..Len(ALL_PREFIXES) : ALL_PREFIXES[i] = Head(line)
    THEN Some(Head(line))
    ELSE None

\* The inner loop of extract_sections: continuation lines are appended raw,
\* each after a line feed, until a line starts a recognized prefix.
\* The inner loop looking for a prefix at the very start of the raw line only.
RECURSIVE CollectContinuation_raw_line(_, _, _)
CollectContinuation_raw_line(ls, i, content) ==
    IF i <= Len(ls) /\ recognized_prefix(ls[i]) = None
    THEN CollectContinuation_raw_line(ls, i + 1, content \o <<NL>> \o ls[i])
    ELSE [content |-> content, i |-> i]

RECURSIVE CollectContinuation(_, _, _)
CollectContinuation(ls, i, content) ==
    IF i <= Len(ls) /\ recognized_prefix(trim_start(ls[i])) = None
    THEN CollectContinuation(ls, i + 1, content \o <<NL>> \o ls[i])
    ELSE [content |-> content, i |-> i]

\* The outer loop of extract_sections, from line i on.
RECURSIVE ExtractFrom(_, _, _)
ExtractFrom(ls, i, sections) ==
    IF i > Len(ls) THEN sections
    ELSE LET line == trim_start(ls[i])
             found == recognized_prefix(line)
         IN  IF found = None THEN ExtractFrom(ls, i + 1, sections)
             ELSE LET prefix == found[1]
                      first == trim(Tail(line))
                  IN  IF prefix \in SINGLE_LINE_PREFIXES
                      THEN ExtractFrom(ls, i + 1,
                               Append(sections, [prefix |-> prefix, content |-> first]))
                      ELSE LET c == CollectContinuation(ls, i + 1, first)
                           IN  ExtractFrom(ls, c.i,
                                   Append(sections,
                                       [prefix |-> prefix, content |-> trim_end(c.content)]))

extract_sections(text) == ExtractFrom(lines(text), 1, <<>>)

\* Extract `developer-N` from the content's start, default developer-0.
parse_developer_target(text) ==
    IF Len(text) >= 2 /\ text[1] = "developer-" /\ IsDigit(text[2])
    THEN new_developer(to_digit(text[2]))
    ELSE new_developer(0)

\* parse_completion_section reporting the status to the supervisor as well.
parse_completion_section_reports(from, prefix, content) ==
    LET status == IF prefix = "COMPLETE:" THEN "Completed" ELSE "Blocked"
    IN  Some(CommandOut(TaskUpdate(from, status, content)))

parse_completion_section(from, prefix, content) ==
    LET kind == IF prefix = "COMPLETE:" THEN "task_complete" ELSE "task_give_up"
    IN  Some(MessageOut(NewMessage(from, Manager, kind, content)))

\* The loop over ROUTES from entry k on.
RECURSIVE RouteFrom(_, _, _, _)
RouteFrom(k, from, prefix, content) ==
    IF k > Len(ROUTES) THEN None
    ELSE LET route == ROUTES[k]
         IN  IF prefix # route[1] THEN RouteFrom(k + 1, from, prefix, content)
             ELSE IF route[4] # None /\ from.role # route[4][1]
                  THEN RouteFrom(k + 1, from, prefix, content)
                  ELSE Some(MessageOut(
                           NewMessage(from, new_singleton(route[2]), route[3], content)))

\* parse_routed_section with every route open to every sender.
parse_routed_section_any_sender(from, prefix, content) ==
    IF \E k \in 1..Len(ROUTES) : ROUTES[k][1] = prefix
    THEN LET route == ROUTES[CHOOSE k \in 1..Len(ROUTES) : ROUTES[k][1] = prefix]
         IN  Some(MessageOut(NewMessage(from, new_singleton(route[2]), route[3], content)))
    ELSE None

parse_routed_section(from, prefix, content) == RouteFrom(1, from, prefix, content)

\* parse_section without the sender check on CREW:.
parse_section_crew_from_anyone(from, prefix, content) ==
    CASE prefix = "CREW:" ->
            LET count == parse_u8(trim(content))
            IN  IF count = None THEN None
                ELSE Some(CommandOut(SetCrewSize(count[1])))
      [] prefix = "RELIEVE:" ->
            IF from.role # "scorer" THEN None
            ELSE Some(CommandOut(RelieveManager(content)))
      [] prefix = "APPROVED:" ->
            Some(MessageOut(NewMessage(from, parse_developer_target(content),
                                       "task_assignment", content)))
      [] prefix \in {"COMPLETE:", "BLOCKED:"} ->
            parse_completion_section(from, prefix, content)
      [] prefix \in {"EVALUATION:", "OBSERVATION:"} -> None
      [] OTHER -> parse_routed_section(from, prefix, content)

\* parse_section without the sender check on RELIEVE:.
parse_section_relieve_from_anyone(from, prefix, content) ==
    CASE prefix = "CREW:" ->
            IF from.role # "manager" THEN None
            ELSE LET count == parse_u8(trim(content))
                 IN  IF count = None THEN None
                     ELSE Some(CommandOut(SetCrewSize(count[1])))
      [] prefix = "RELIEVE:" -> Some(CommandOut(RelieveManager(content)))
      [] prefix = "APPROVED:" ->
            Some(MessageOut(NewMessage(from, parse_developer_target(content),
                                       "task_assignment", content)))
      [] prefix \in {"COMPLETE:", "BLOCKED:"} ->
            parse_completion_section(from, prefix, content)
      [] prefix \in {"EVALUATION:", "OBSERVATION:"} -> None
      [] OTHER -> parse_routed_section(from, prefix, content)

parse_section(from, prefix, content) ==
    CASE prefix = "CREW:" ->
            IF from.role # "manager" THEN None
            ELSE LET count == parse_u8(trim(content))
                 IN  IF count = None THEN None
                     ELSE Some(CommandOut(SetCrewSize(count[1])))
      [] prefix = "RELIEVE:" ->
            IF from.role # "scorer" THEN None
            ELSE Some(CommandOut(RelieveManager(content)))
      [] prefix = "APPROVED:" ->
            Some(MessageOut(NewMessage(from, parse_developer_target(content),
                                       "task_assignment", content)))
      [] prefix \in {"COMPLETE:", "BLOCKED:"} ->
            parse_completion_section(from, prefix, content)
      [] prefix \in {"EVALUATION:", "OBSERVATION:"} -> None
      [] OTHER -> parse_routed_section(from, prefix, content)

\* filter_map over the sections, in order.
RECURSIVE FilterMapSections(_, _)
FilterMapSections(from, sections) ==
    IF sections = <<>> THEN <<>>
    ELSE parse_section(from, Head(sections).prefix, Head(sections).content)
             \o FilterMapSections(from, Tail(sections))

\* parse_agent_output returning its outputs last section first.
parse_agent_output_reversed(from, text) ==
    LET outs == FilterMapSections(from, extract_sections(text))
    IN  [i \in 1..Len(outs) |-> outs[Len(outs) + 1 - i]]

parse_agent_output(from, text) == FilterMapSections(from, extract_sections(text))

\* ------------------------------------------------------------ state

VARIABLES
    runtime_pc,          \* "new" before OrchestratorRuntime::run, then "running"
    developer_count,     \* RuntimeState.developer_count
    task_log,            \* RuntimeState.task_log
    manager_generation,  \* RuntimeState.manager_generation
    last_relieve,        \* RuntimeState.last_relieve: Option<Instant>
    agent_handles,       \* HashMap<AgentId, JoinHandle>: AgentId -> task number
    command_chan,        \* the command channel: <<[cmd, origin]>>, oldest first
    now,                 \* the monotonic clock, in seconds
    workers,             \* <<AgentId, task number>> -> the worker task's state
    managers_spawned,    \* history: Manager worker tasks spawned so far
    conns,               \* connections accepted so far by all listeners
    socket_files,        \* the socket directory: AgentId (its {socket_name}.sock)
                         \*   -> task number of the listener whose bind created it
    p_from, p_text, p_out, p_done,  \* one application of parse_agent_output
    wire,                \* one connection: the messages still to send, the
                         \*   byte stream, and the results of the writes and reads
    backend              \* one backend child: the lines on its stdout, the
                         \*   reader task and the output channel

vars ==
    <<runtime_pc, developer_count, task_log, manager_generation, last_relieve,
      agent_handles, command_chan, now, workers, managers_spawned, conns,
      socket_files, p_from, p_text, p_out, p_done, wire, backend>>

runtime_vars ==
    <<runtime_pc, developer_count, task_log, manager_generation, last_relieve,
      agent_handles, managers_spawned>>

parse_vars == <<p_from, p_text, p_out, p_done, wire, backend>>

\* ----------------------------------------------------- runtime.rs

RELIEVE_COOLDOWN == 60

\* A worker task as tokio::spawn creates it in spawn_agent: not yet bound.
\* briefing is the state briefing appended to the system prompt (None for
\* the role's plain prompt); output is the backend event in hand; pending
\* are the parsed outputs dispatch_parsed has not sent yet; outbox is the
\* outbound channel; children counts the backend child processes the worker
\* has spawned and not yet reaped with wait().  A task that has ended and whose outbound sender has
\* drained the channel is no longer in `workers`.
NewWorker(briefing) ==
    [pc |-> "new", cancelled |-> FALSE, briefing |-> briefing,
     output |-> None, pending |-> <<>>, outbox |-> <<>>, children |-> 0]

\* The supervisor's own collections, threaded through its helper methods.
SupervisorState ==
    [handles |-> agent_handles, workers |-> workers, managers |-> managers_spawned]

\* HashMap::insert / HashMap::remove
MapInsert(m, k, v) == [x \in DOMAIN m \cup {k} |-> IF x = k THEN v ELSE m[x]]
MapRemove(m, k) == [x \in DOMAIN m \ {k} |-> m[x]]

\* JoinHandle::abort: the task is cancelled at its next suspension point; a
\* task that has already ended is not affected.
AbortTask(ws, task) ==
    IF task \in DOMAIN ws /\ ws[task].pc # "ended"
    THEN [ws EXCEPT ![task].cancelled = TRUE]
    ELSE ws

TasksOf(ws, agent_id) == {w \in DOMAIN ws : w[1] = agent_id}

\* tokio::spawn gives the new task an id no existing task has.
FreshTask(ws, agent_id) ==
    <<agent_id, CHOOSE n \in 1..(MaxTasks + 2) :
                    /\ <<agent_id, n>> \notin DOMAIN ws
                    /\ \A k \in 1..(n - 1) : <<agent_id, k>> \in DOMAIN ws>>

spawn_agent(st, agent_id, briefing) ==
    LET task == FreshTask(st.workers, agent_id)
    IN  [handles |-> MapInsert(st.handles, agent_id, task[2]),
         workers |-> (task :> NewWorker(briefing)) @@ st.workers,
         managers |-> IF agent_id = Manager THEN st.managers + 1 ELSE st.managers]

RECURSIVE spawn_developers(_, _, _)
spawn_developers(st, from, to) ==
    IF from >= to THEN st
    ELSE spawn_developers(spawn_agent(st, new_developer(from), None), from + 1, to)

\* kill_developers aborting the tasks but leaving their handles in the map.
RECURSIVE kill_developers_keeps_handles(_, _, _)
kill_developers_keeps_handles(st, from, to) ==
    IF from >= to THEN st
    ELSE LET dev_id == new_developer(from)
             next == IF dev_id \in DOMAIN st.handles
                     THEN [st EXCEPT
                             !.workers = AbortTask(st.workers,
                                                   <<dev_id, st.handles[dev_id]>>)]
                     ELSE st
         IN  kill_developers_keeps_handles(next, from + 1, to)

RECURSIVE kill_developers(_, _, _)
kill_developers(st, from, to) ==
    IF from >= to THEN st
    ELSE LET dev_id == new_developer(from)
             next == IF dev_id \in DOMAIN st.handles
                     THEN [st EXCEPT
                             !.handles = MapRemove(st.handles, dev_id),
                             !.workers = AbortTask(st.workers,
                                                   <<dev_id, st.handles[dev_id]>>)]
                     ELSE st
         IN  kill_developers(next, from + 1, to)

abort_manager(st) ==
    IF Manager \in DOMAIN st.handles
    THEN [st EXCEPT !.handles = MapRemove(st.handles, Manager),
                    !.workers = AbortTask(st.workers, <<Manager, st.handles[Manager]>>)]
    ELSE st

\* A clamp that has no lower bound.
clamp_without_floor(count, lo, hi) == IF count > hi THEN hi ELSE count

\* u8::clamp(1, 3)
clamp(count, lo, hi) == IF count < lo THEN lo ELSE IF count > hi THEN hi ELSE count

\* The briefing's fields, in the order build_manager_briefing writes them.
build_manager_briefing(relieve_reason, generation, developers, log) ==
    [reason |-> relieve_reason, generation |-> generation, developers |-> developers,
     history |-> IF log = <<>> THEN <<"No task history recorded.">> ELSE log]

\* The tasks that exist at once stay within MaxTasks per AgentId.
WithinTaskBound(st) ==
    \A a \in AgentIds : Cardinality(TasksOf(st.workers, a)) <= MaxTasks

StoreSupervisor(st) ==
    /\ agent_handles' = st.handles
    /\ workers' = st.workers
    /\ managers_spawned' = st.managers

spawn_initial_agents ==
    /\ runtime_pc = "new"
    /\ runtime_pc' = "running"
    /\ LET s1 == spawn_agent(SupervisorState, Manager, None)
           s2 == spawn_agent(s1, Architect, None)
           s3 == spawn_agent(s2, Scorer, None)
           s4 == spawn_agent(s3, new_developer(0), None)
       IN  StoreSupervisor(s4)
    /\ UNCHANGED <<developer_count, task_log, manager_generation, last_relieve,
                   command_chan, now, conns, socket_files, parse_vars>>

\* handle_crew_size without the clamp.
handle_crew_size_unclamped(requested) ==
    LET count == requested
        current == developer_count
    IN  IF count = current
        THEN UNCHANGED <<developer_count, agent_handles, workers, managers_spawned>>
        ELSE LET st == IF count > current
                       THEN spawn_developers(SupervisorState, current, count)
                       ELSE kill_developers(SupervisorState, count, current)
             IN  /\ WithinTaskBound(st)
                 /\ StoreSupervisor(st)
                 /\ developer_count' = count

\* handle_crew_size restarting the last developer when the size is kept.
handle_crew_size_restarts(requested) ==
    LET count == clamp(requested, 1, MaxDevelopers)
        current == developer_count
    IN  IF count = current
        THEN LET st == spawn_developers(
                           kill_developers(SupervisorState, count - 1, count),
                           count - 1, count)
             IN  /\ WithinTaskBound(st)
                 /\ StoreSupervisor(st)
                 /\ UNCHANGED developer_count
        ELSE LET st == IF count > current
                       THEN spawn_developers(SupervisorState, current, count)
                       ELSE kill_developers(SupervisorState, count, current)
             IN  /\ WithinTaskBound(st)
                 /\ StoreSupervisor(st)
                 /\ developer_count' = count

handle_crew_size(requested) ==
    LET count == clamp(requested, 1, MaxDevelopers)
        current == developer_count
    IN  IF count = current
        THEN UNCHANGED <<developer_count, agent_handles, workers, managers_spawned>>
        ELSE LET st == IF count > current
                       THEN spawn_developers(SupervisorState, current, count)
                       ELSE kill_developers(SupervisorState, count, current)
             IN  /\ WithinTaskBound(st)
                 /\ StoreSupervisor(st)
                 /\ developer_count' = count

InCooldown == last_relieve # None /\ now - last_relieve[1] < RELIEVE_COOLDOWN

\* handle_relieve_manager aborting the Manager before the cooldown check.
handle_relieve_manager_aborts_first(reason) ==
    IF InCooldown
    THEN /\ StoreSupervisor(abort_manager(SupervisorState))
         /\ UNCHANGED <<manager_generation, last_relieve>>
    ELSE LET generation == manager_generation + 1
             briefing == build_manager_briefing(reason, generation,
                                                developer_count, task_log)
             st == spawn_agent(abort_manager(SupervisorState), Manager, Some(briefing))
         IN  /\ WithinTaskBound(st)
             /\ manager_generation' = generation
             /\ last_relieve' = Some(now)
             /\ StoreSupervisor(st)

\* handle_relieve_manager where a rejected request restarts the cooldown.
handle_relieve_manager_restarts_cooldown(reason) ==
    IF InCooldown
    THEN /\ last_relieve' = Some(now)
         /\ UNCHANGED <<manager_generation, agent_handles, workers, managers_spawned>>
    ELSE LET generation == manager_generation + 1
             briefing == build_manager_briefing(reason, generation,
                                                developer_count, task_log)
             st == spawn_agent(abort_manager(SupervisorState), Manager, Some(briefing))
         IN  /\ WithinTaskBound(st)
             /\ manager_generation' = generation
             /\ last_relieve' = Some(now)
             /\ StoreSupervisor(st)

\* handle_relieve_manager counting a rejected request too.
handle_relieve_manager_counts_rejected(reason) ==
    IF InCooldown
    THEN /\ manager_generation' = manager_generation + 1
         /\ UNCHANGED <<last_relieve, agent_handles, workers, managers_spawned>>
    ELSE LET generation == manager_generation + 1
             briefing == build_manager_briefing(reason, generation,
                                                developer_count, task_log)
             st == spawn_agent(abort_manager(SupervisorState), Manager, Some(briefing))
         IN  /\ WithinTaskBound(st)
             /\ manager_generation' = generation
             /\ last_relieve' = Some(now)
             /\ StoreSupervisor(st)

\* handle_relieve_manager building the briefing before the increment.
handle_relieve_manager_stale_briefing(reason) ==
    IF InCooldown
    THEN UNCHANGED <<manager_generation, last_relieve, agent_handles, workers,
                     managers_spawned>>
    ELSE LET generation == manager_generation + 1
             briefing == build_manager_briefing(reason, manager_generation,
                                                developer_count, task_log)
             st == spawn_agent(abort_manager(SupervisorState), Manager, Some(briefing))
         IN  /\ WithinTaskBound(st)
             /\ manager_generation' = generation
             /\ last_relieve' = Some(now)
             /\ StoreSupervisor(st)

handle_relieve_manager(reason) ==
    IF InCooldown
    THEN UNCHANGED <<manager_generation, last_relieve, agent_handles, workers,
                     managers_spawned>>
    ELSE LET generation == manager_generation + 1
             briefing == build_manager_briefing(reason, generation,
                                                developer_count, task_log)
             st == spawn_agent(abort_manager(SupervisorState), Manager, Some(briefing))
         IN  /\ WithinTaskBound(st)
             /\ manager_generation' = generation
             /\ last_relieve' = Some(now)
             /\ StoreSupervisor(st)

\* The TaskUpdate arm of the command loop (task_log.push), and one that puts
\* the record in front.
push_front(log, cmd) ==
    <<[agent |-> cmd.agent, status |-> cmd.status, summary |-> cmd.summary]>> \o log

push(log, cmd) ==
    Append(log, [agent |-> cmd.agent, status |-> cmd.status, summary |-> cmd.summary])

\* A command loop that takes the newest command first.
HandleCommand_newest_first ==
    /\ runtime_pc = "running"
    /\ command_chan # <<>>
    /\ LET cmd == command_chan[Len(command_chan)].cmd
       IN  CASE cmd.type = "SetCrewSize" ->
                    /\ handle_crew_size(cmd.count)
                    /\ UNCHANGED <<task_log, manager_generation, last_relieve>>
             [] cmd.type = "RelieveManager" ->
                    /\ handle_relieve_manager(cmd.reason)
                    /\ UNCHANGED <<task_log, developer_count>>
             [] cmd.type = "TaskUpdate" ->
                    /\ Len(task_log) < MaxLog
                    /\ task_log' = push(task_log, cmd)
                    /\ UNCHANGED <<developer_count, manager_generation, last_relieve,
                                   agent_handles, workers, managers_spawned>>
    /\ command_chan' = SubSeq(command_chan, 1, Len(command_chan) - 1)
    /\ UNCHANGED <<runtime_pc, now, conns, socket_files, parse_vars>>

\* One turn of the command loop in OrchestratorRuntime::run.
HandleCommand ==
    /\ runtime_pc = "running"
    /\ command_chan # <<>>
    /\ LET cmd == Head(command_chan).cmd
       IN  CASE cmd.type = "SetCrewSize" ->
                    /\ handle_crew_size(cmd.count)
                    /\ UNCHANGED <<task_log, manager_generation, last_relieve>>
             [] cmd.type = "RelieveManager" ->
                    /\ handle_relieve_manager(cmd.reason)
                    /\ UNCHANGED <<task_log, developer_count>>
             [] cmd.type = "TaskUpdate" ->
                    /\ Len(task_log) < MaxLog
                    /\ task_log' = push(task_log, cmd)
                    /\ UNCHANGED <<developer_count, manager_generation, last_relieve,
                                   agent_handles, workers, managers_spawned>>
    /\ command_chan' = Tail(command_chan)
    /\ UNCHANGED <<runtime_pc, now, conns, socket_files, parse_vars>>

\* Time passes.
Tick(d) ==
    /\ now + d <= MaxTime
    /\ now' = now + d
    /\ UNCHANGED <<runtime_vars, command_chan, workers, conns, socket_files, parse_vars>>

\* A holder of a command_tx clone sends a command (mpsc::Sender::send: only
\* when the channel has room).
SendCommand(origin, cmd) ==
    /\ runtime_pc = "running"
    /\ Len(command_chan) < CmdCap
    /\ command_chan' = Append(command_chan, [cmd |-> cmd, origin |-> origin])
    /\ UNCHANGED <<runtime_vars, now, workers, conns, socket_files, parse_vars>>

\* OrchestratorRuntime::new
RuntimeNew ==
    /\ runtime_pc = "new"
    /\ developer_count = 1
    /\ task_log = <<>>
    /\ manager_generation = 0
    /\ last_relieve = None
    /\ agent_handles = <<>>
    /\ command_chan = <<>>
    /\ now = 0
    /\ workers = <<>>
    /\ managers_spawned = 0
    /\ conns = 0
    /\ socket_files = <<>>

ParseIdle ==
    /\ p_from = Manager
    /\ p_text = <<>>
    /\ p_out = <<>>
    /\ p_done = FALSE

\* No connection under observation.
WireIdle == wire = [to_write |-> <<>>, stream |-> <<>>, writes |-> <<>>, reads |-> <<>>]

\* No backend child under observation.
BackendIdle ==
    backend = [script |-> <<>>, stdout |-> <<>>, reader |-> "none", chan |-> <<>>,
               delivered |-> <<>>]

\* ------------------------------------------- backend/mod.rs: AgentOutput

TextEvent(t) == [type |-> "Text", text |-> Some(t)]
ResultEvent(t) == [type |-> "Result", text |-> t]
ErrorEvent == [type |-> "Error", text |-> None]
ToolUseEvent == [type |-> "ToolUse", text |-> None]

is_final(output) == output.type \in {"Result", "Error"}

\* ------------------------------------------------ agent.rs: the worker

WorkerIds == DOMAIN workers

\* A task that was aborted makes no further step of its own.
Runs(w, pc) == w \in WorkerIds /\ ~workers[w].cancelled /\ workers[w].pc = pc

SetWorker(w, fields) ==
    workers' = [workers EXCEPT ![w] = fields @@ workers[w]]

\* A task whose end takes its outbound sender and the queued messages along.
TaskEnds_with_sender(w) ==
    workers' = [x \in WorkerIds \ {w} |-> workers[x]]

\* The task is over (Agent::new or Agent::run returned an error, or the task
\* was dropped after an abort): its listener and its outgoing_tx are dropped.
\* The outbound sender task lives on until it has drained the channel.
TaskEnds(w) ==
    IF workers[w].outbox = <<>>
    THEN workers' = [x \in WorkerIds \ {w} |-> workers[x]]
    ELSE SetWorker(w, [pc |-> "ended", cancelled |-> FALSE,
                       output |-> None, pending |-> <<>>, children |-> 0])

\* A listener that leaves its socket file behind.
DropListener_keeps_file(w) ==
    socket_files' = socket_files

\* Drop for AgentListener, when the task that owns a listener is over:
\* remove_file(socket_path), whoever created the file that is there now.
DropListener(w) ==
    socket_files' = IF workers[w].pc \in {"new", "ended"}
                    THEN socket_files
                    ELSE MapRemove(socket_files, w[1])

ListenerFrame == <<runtime_vars, command_chan, now, conns, parse_vars>>
WorkerFrame == <<runtime_vars, command_chan, now, conns, socket_files, parse_vars>>

\* AgentListener::bind: an existing file at the path is removed, then
\* UnixListener::bind creates the socket file.  remove_file may fail (the
\* file stays), and create_dir_all or UnixListener::bind may fail after the
\* removal (no file is left).
BindOutcomes == {"bound", "remove_failed", "bind_failed"}

bind(w, outcome) ==
    CASE outcome = "bound" -> MapInsert(socket_files, w[1], w[2])
      [] outcome = "remove_failed" -> socket_files
      [] outcome = "bind_failed" -> MapRemove(socket_files, w[1])

\* Agent::new: AgentListener::bind succeeds, or its error ends the task.
AgentNew(w, outcome) ==
    /\ Runs(w, "new")
    /\ outcome = "remove_failed" => w[1] \in DOMAIN socket_files
    /\ socket_files' = bind(w, outcome)
    /\ IF outcome = "bound" THEN SetWorker(w, [pc |-> "accept"]) ELSE TaskEnds(w)
    /\ UNCHANGED ListenerFrame

\* A peer connects and AgentListener::accept returns.  Its error goes through
\* `?` in accept_message and `?` in run: the task ends.
Peers == {"same_user", "different_user", "accept_failed"}

ConnLimit == IF runtime_pc = "standalone" THEN MaxAgentConns ELSE MaxConns

listener_accept(w, peer) ==
    /\ Runs(w, "accept")
    /\ conns < ConnLimit
    /\ conns' = conns + 1
    /\ IF peer = "same_user"
       THEN SetWorker(w, [pc |-> "recv"]) /\ UNCHANGED socket_files
       ELSE TaskEnds(w) /\ DropListener(w)

ListenerAccept(w, peer) ==
    /\ listener_accept(w, peer)
    /\ UNCHANGED <<runtime_vars, command_chan, now, parse_vars>>

\* An accept_message that passes the error of conn.recv() on with `?`.
conn_recv_error_ends_task(w, ok) ==
    /\ Runs(w, "recv")
    /\ IF ok
       THEN SetWorker(w, [pc |-> "spawn"]) /\ UNCHANGED socket_files
       ELSE TaskEnds(w) /\ DropListener(w)

\* conn.recv() in accept_message: Ok returns the message, Err continues
\* with the next accept; the connection is dropped at the end of that turn.
conn_recv(w, ok) ==
    /\ Runs(w, "recv")
    /\ SetWorker(w, [pc |-> IF ok THEN "spawn" ELSE "accept"])
    /\ UNCHANGED socket_files

ConnRecv(w, ok) ==
    /\ conn_recv(w, ok)
    /\ UNCHANGED <<runtime_vars, command_chan, now, conns, parse_vars>>

\* backend.spawn(...).await.context("Failed to spawn backend")?
backend_spawn(w, ok) ==
    /\ Runs(w, "spawn")
    /\ IF ok
       THEN /\ SetWorker(w, [pc |-> "consume", children |-> workers[w].children + 1])
            /\ UNCHANGED socket_files
       ELSE TaskEnds(w) /\ DropListener(w)

BackendSpawn(w, ok) ==
    /\ backend_spawn(w, ok)
    /\ UNCHANGED ListenerFrame

\* output_rx.recv() yields an event.  Only Text is parsed; the parsed outputs
\* wait in `pending` for dispatch_parsed's sends.
\* A worker loop that parses whatever text an event carries (output.text()).
output_rx_recv_parses_any_text(w, output) ==
    /\ Runs(w, "consume")
    /\ IF output.text # None
       THEN SetWorker(w, [pc |-> "dispatch", output |-> Some(output),
                          pending |-> parse_agent_output(w[1], output.text[1])])
       ELSE SetWorker(w, [pc |-> IF is_final(output) THEN "wait" ELSE "consume"])

output_rx_recv(w, output) ==
    /\ Runs(w, "consume")
    /\ IF output.type = "Text"
       THEN SetWorker(w, [pc |-> "dispatch", output |-> Some(output),
                          pending |-> parse_agent_output(w[1], output.text[1])])
       ELSE SetWorker(w, [pc |-> IF is_final(output) THEN "wait" ELSE "consume"])

\* The backend left open: it hands the worker any event at any time.
OutputRecv(w, output) ==
    /\ output_rx_recv(w, output)
    /\ UNCHANGED WorkerFrame

\* output_rx.recv() yields None: the reader task has dropped the sender.
output_rx_closed(w) ==
    /\ Runs(w, "consume")
    /\ SetWorker(w, [pc |-> "wait"])

OutputClosed(w) ==
    /\ output_rx_closed(w)
    /\ UNCHANGED WorkerFrame

OutLimit == IF runtime_pc = "standalone" THEN MaxAgentOut ELSE OutCap

\* One iteration of dispatch_parsed's loop: a send on the outbound or the
\* command channel, which waits while the channel is full.
DispatchSend(w) ==
    /\ Runs(w, "dispatch")
    /\ workers[w].pending # <<>>
    /\ LET parsed == Head(workers[w].pending)
       IN  IF parsed.type = "Message"
           THEN /\ Len(workers[w].outbox) < OutLimit
                /\ SetWorker(w, [pending |-> Tail(workers[w].pending),
                                 outbox |-> Append(workers[w].outbox, parsed.msg)])
                /\ UNCHANGED command_chan
           ELSE /\ Len(command_chan) < CmdCap
                /\ command_chan' = Append(command_chan,
                                          [cmd |-> parsed.cmd, origin |-> w[1]])
                /\ SetWorker(w, [pending |-> Tail(workers[w].pending)])
    /\ UNCHANGED <<runtime_vars, now, conns, socket_files, parse_vars>>

\* dispatch_parsed returns; `if output.is_final() { break; }`.
DispatchDone(w) ==
    /\ Runs(w, "dispatch")
    /\ workers[w].pending = <<>>
    /\ SetWorker(w, [pc |-> IF is_final(workers[w].output[1]) THEN "wait" ELSE "consume",
                     output |-> None])
    /\ UNCHANGED WorkerFrame

\* The loop starting over without the child having been reaped.
HandleWait_without_reap(w) ==
    /\ Runs(w, "wait")
    /\ SetWorker(w, [pc |-> "accept"])
    /\ UNCHANGED WorkerFrame

\* handle.wait().await, then the loop starts over.
HandleWait(w) ==
    /\ Runs(w, "wait")
    /\ SetWorker(w, [pc |-> "accept", children |-> workers[w].children - 1])
    /\ UNCHANGED WorkerFrame

\* A sender task whose loop ends at the first message it cannot deliver.
SenderDeliver_stops_on_error(w) ==
    /\ w \in WorkerIds
    /\ workers[w].outbox # <<>>
    /\ Head(workers[w].outbox).to \in DOMAIN socket_files
    /\ IF workers[w].pc = "ended" /\ Len(workers[w].outbox) = 1
       THEN workers' = [x \in WorkerIds \ {w} |-> workers[x]]
       ELSE SetWorker(w, [outbox |-> Tail(workers[w].outbox)])
    /\ UNCHANGED WorkerFrame

\* The outbound sender task: send_to_agent succeeds or fails, and either way
\* the message has left the channel.  The sender is a task of its own, which
\* an abort of the worker does not reach; it stops once the worker is over
\* and the channel is empty.
SenderDeliver(w) ==
    /\ w \in WorkerIds
    /\ workers[w].outbox # <<>>
    /\ IF workers[w].pc = "ended" /\ Len(workers[w].outbox) = 1
       THEN workers' = [x \in WorkerIds \ {w} |-> workers[x]]
       ELSE SetWorker(w, [outbox |-> Tail(workers[w].outbox)])
    /\ UNCHANGED WorkerFrame

\* The aborted task is dropped at its suspension point.
TaskCancelled(w) ==
    /\ w \in WorkerIds
    /\ workers[w].cancelled
    /\ TaskEnds(w)
    /\ DropListener(w)
    /\ UNCHANGED ListenerFrame

CrewText == <<"CREW:", SP, "3">>
RelieveText == <<"RELIEVE:", SP, "x">>
CompleteText == <<"COMPLETE:", SP, "x">>
\* Sections of several kinds in one text block, some of which are dropped.
MixedText ==
    <<"TASK:", SP, "x", NL, "EVALUATION:", SP, "x", NL, "CREW:", SP, "x", NL,
      "CREW:", SP, "3", NL, "INTERRUPT:", SP, "x", NL, "COMPLETE:", SP, "x">>
BackendTexts == {CrewText, RelieveText, CompleteText, MixedText}
BackendEvents ==
    {TextEvent(t) : t \in BackendTexts}
        \cup {ResultEvent(Some(CrewText)), ErrorEvent, ToolUseEvent}

WorkerNext ==
    \/ \E w \in WorkerIds, outcome \in BindOutcomes : AgentNew(w, outcome)
    \/ \E w \in WorkerIds, peer \in Peers : ListenerAccept(w, peer)
    \/ \E w \in WorkerIds, ok \in BOOLEAN : ConnRecv(w, ok)
    \/ \E w \in WorkerIds, ok \in BOOLEAN : BackendSpawn(w, ok)
    \/ \E w \in WorkerIds, output \in BackendEvents : OutputRecv(w, output)
    \/ \E w \in WorkerIds : OutputClosed(w)
    \/ \E w \in WorkerIds : DispatchSend(w)
    \/ \E w \in WorkerIds : DispatchDone(w)
    \/ \E w \in WorkerIds : HandleWait(w)
    \/ \E w \in WorkerIds : SenderDeliver(w)

\* ------------------------------------- the supervisor and its commands

\* The supervisor alone, driven by every command a command_tx holder can send.
\* The executor drops an aborted task before the supervisor's next step, so
\* that the tasks of this specification are the ones the handle map names
\* plus the ones the last command aborted.
CrewCounts == {0, 1, 2, 3, 4, 255}
TickSteps == {29, 30, 31}
Reasons == {<<"x">>}
RuntimeCommands ==
    {SetCrewSize(c) : c \in CrewCounts}
        \cup {RelieveManager(r) : r \in Reasons}
        \cup {TaskUpdate(new_developer(0), "Completed", <<"x">>)}

NoAbortPending == \A w \in WorkerIds : ~workers[w].cancelled

InitRuntime == RuntimeNew /\ ParseIdle /\ WireIdle /\ BackendIdle

NextRuntime ==
    \/ spawn_initial_agents
    \/ NoAbortPending /\ HandleCommand
    \/ NoAbortPending /\ \E d \in TickSteps : Tick(d)
    \/ NoAbortPending /\ \E c \in RuntimeCommands : SendCommand(Manager, c)
    \/ \E w \in WorkerIds : TaskCancelled(w)

SpecRuntime == InitRuntime /\ [][NextRuntime]_vars

\* The supervisor keeping its task log: reports of two workers arrive in any
\* order, between a resize and a relieve.
LogCommands ==
    {TaskUpdate(new_developer(0), "Completed", <<"x">>),
     TaskUpdate(Architect, "Blocked", <<"x">>),
     SetCrewSize(2),
     RelieveManager(<<"x">>)}

NextLog ==
    \/ spawn_initial_agents
    \/ NoAbortPending /\ HandleCommand
    \/ NoAbortPending /\ \E c \in LogCommands : SendCommand(Manager, c)
    \/ \E w \in WorkerIds : TaskCancelled(w)

SpecLog == InitRuntime /\ [][NextLog]_vars

\* --------------------------------------- main.rs: one standalone agent

\* run_agent's logging task takes a command off the channel.
StandaloneDrain ==
    /\ runtime_pc = "standalone"
    /\ command_chan # <<>>
    /\ command_chan' = Tail(command_chan)
    /\ UNCHANGED <<runtime_vars, now, workers, conns, socket_files, parse_vars>>

InitAgent ==
    /\ ParseIdle
    /\ WireIdle
    /\ BackendIdle
    /\ runtime_pc = "standalone"
    /\ developer_count = 1
    /\ task_log = <<>>
    /\ manager_generation = 0
    /\ last_relieve = None
    /\ agent_handles = <<>>
    /\ command_chan = <<>>
    /\ now = 0
    /\ managers_spawned = 0
    /\ conns = 0
    /\ socket_files = <<>>
    /\ \E role \in AgentRole : workers = (<<new_singleton(role), 1>> :> NewWorker(None))

NextAgent ==
    \/ WorkerNext
    \/ StandaloneDrain

SpecAgent == InitAgent /\ [][NextAgent]_vars

\* The sender task is polled whenever outgoing_rx has a message for it, and
\* a connect to a path where nobody listens fails at once.
FairSender == WF_vars(\E w \in WorkerIds : SenderDeliver(w))

SpecSender == InitAgent /\ [][NextAgent]_vars /\ FairSender

\* ------------------------------------------------- the whole system

RelieveWait == {60}

Init == RuntimeNew /\ ParseIdle /\ WireIdle /\ BackendIdle

Next ==
    \/ spawn_initial_agents
    \/ HandleCommand
    \/ \E d \in RelieveWait : Tick(d)
    \/ WorkerNext
    \/ \E w \in WorkerIds : TaskCancelled(w)

Spec == Init /\ [][Next]_vars

\* ------------------------------- the developer pool and its socket files

\* The supervisor resizing the pool while the developer tasks bind, are
\* dropped after an abort, or end on their own when a peer of another user
\* connects; the singleton workers have not been scheduled yet.  An aborted
\* task is dropped in the end: abort() wakes the task, and the executor
\* drops a woken cancelled task when it next polls it.
PoolSizes == {1, 2, 3}
AllTasks == {<<a, n>> : a \in AgentIds, n \in 1..(MaxTasks + 2)}
DeveloperTasks == {w \in WorkerIds : w[1].role = "developer"}

NextCrew ==
    \/ spawn_initial_agents
    \/ HandleCommand
    \/ \E c \in PoolSizes : SendCommand(Manager, SetCrewSize(c))
    \/ \E w \in DeveloperTasks, outcome \in BindOutcomes : AgentNew(w, outcome)
    \/ \E w \in DeveloperTasks : ListenerAccept(w, "different_user")
    \/ \E w \in DeveloperTasks : TaskCancelled(w)

FairCrew == \A w \in AllTasks : WF_vars(TaskCancelled(w))

SpecCrew == InitRuntime /\ [][NextCrew]_vars /\ FairCrew

\* ------------------------------ aborted workers and their sender tasks

\* The supervisor relieving the Manager and resizing the pool between one
\* and two developers while the Manager and developer-1 serve a connection
\* and queue outbound messages; a command is sent when the one before it has
\* been handled.  The executor polls a sender task that has a message
\* waiting and drops an aborted task.
AbortCommands == {SetCrewSize(1), SetCrewSize(2), RelieveManager(<<"x">>)}
AbortableIds == {Manager, new_developer(1)}
AbortableTasks == {w \in WorkerIds : w[1] \in AbortableIds}
QueueText == <<"TASK:", SP, "x", NL, "COMPLETE:", SP, "x">>
AbortEvents == {TextEvent(QueueText), ResultEvent(None)}

NextAbort ==
    \/ spawn_initial_agents
    \/ HandleCommand
    \/ command_chan = <<>> /\ \E c \in AbortCommands : SendCommand(Scorer, c)
    \/ \E w \in AbortableTasks : AgentNew(w, "bound")
    \/ \E w \in AbortableTasks : ListenerAccept(w, "same_user")
    \/ \E w \in AbortableTasks : ConnRecv(w, TRUE)
    \/ \E w \in AbortableTasks : BackendSpawn(w, TRUE)
    \/ \E w \in AbortableTasks, output \in AbortEvents : OutputRecv(w, output)
    \/ \E w \in AbortableTasks : DispatchSend(w)
    \/ \E w \in AbortableTasks : DispatchDone(w)
    \/ \E w \in AbortableTasks : HandleWait(w)
    \/ \E w \in AbortableTasks : SenderDeliver(w)
    \/ \E w \in AbortableTasks : TaskCancelled(w)

FairAbort ==
    \A w \in {t \in AllTasks : t[1] \in AbortableIds} :
        WF_vars(SenderDeliver(w)) /\ WF_vars(TaskCancelled(w))

SpecAbort == InitRuntime /\ [][NextAbort]_vars /\ FairAbort

\* ------------------------------------------- the parser, applied once

\* The lines a generated text block is made of.
SampleLines ==
    { <<"CREW:", SP, "3">>,
      <<"CREW:", SP, "x">>,
      <<"RELIEVE:", SP, "x">>,
      <<"TASK:", SP, "x">>,
      <<SP, "APPROVED:", SP, "developer-", "2", SP, "x">>,
      <<"APPROVED:", "developer-", "7">>,
      <<"APPROVED:", SP, "developer-", "1", "2">>,
      <<"APPROVED:", SP, "developer-", "0">>,
      <<"APPROVED:", SP, "x">>,
      <<"REJECTED:", SP, "x">>,
      <<"COMPLETE:", SP, "x", SP>>,
      <<"BLOCKED:">>,
      <<"INTERRUPT:", SP, "x">>,
      <<"EVALUATION:", SP, "x">>,
      <<"OBSERVATION:", SP, "x">>,
      <<"x", SP, "TASK:", SP, "x">>,
      <<"x">>,
      <<>> }

RECURSIVE JoinLines(_)
JoinLines(ls) ==
    IF ls = <<>> THEN <<>>
    ELSE IF Len(ls) = 1 THEN ls[1]
         ELSE ls[1] \o <<NL>> \o JoinLines(Tail(ls))

SampleTexts ==
    {JoinLines(ls) : ls \in UNION {[1..n -> SampleLines] : n \in 0..MaxLines}}

Parse ==
    /\ ~p_done
    /\ p_out' = parse_agent_output(p_from, p_text)
    /\ p_done' = TRUE
    /\ UNCHANGED <<p_from, p_text, wire, backend, runtime_vars, command_chan, now,
                   workers, conns, socket_files>>

InitParse ==
    /\ RuntimeNew
    /\ p_from \in AgentIds
    /\ p_text \in SampleTexts
    /\ p_out = <<>>
    /\ p_done = FALSE
    /\ WireIdle
    /\ BackendIdle

NextParse == Parse

SpecParse == InitParse /\ [][NextParse]_vars

\* The parser applied to text blocks whose CREW: lines carry every kind of
\* content: none, a word, a negative number, a fraction, numbers next to
\* the ends of u8, a number with a sign or leading zeros, and a number
\* followed by a word; between them lines of other sections.
CrewLines ==
    { <<"CREW:">>,
      <<"CREW:", SP, "x">>,
      <<"CREW:", SP, "-", "1">>,
      <<"CREW:", SP, "1", ".", "5">>,
      <<"CREW:", SP, "2", "5", "6">>,
      <<"CREW:", SP, "2", "5", "5", SP>>,
      <<SP, "CREW:", "0">>,
      <<"CREW:", SP, "+", "0", "3">>,
      <<"CREW:", SP, "3", SP, "x">>,
      <<"CREW:", SP, "+">>,
      <<"TASK:", SP, "x">>,
      <<"COMPLETE:", SP, "2">>,
      <<"x">> }

CrewTexts ==
    {JoinLines(ls) : ls \in UNION {[1..n -> CrewLines] : n \in 0..MaxLines}}

InitCrewParse ==
    /\ RuntimeNew
    /\ p_from \in AgentIds
    /\ p_text \in CrewTexts
    /\ p_out = <<>>
    /\ p_done = FALSE
    /\ WireIdle
    /\ BackendIdle

NextCrewParse == Parse

SpecCrewParse == InitCrewParse /\ [][NextCrewParse]_vars

\* --------------------------------- backend/claude.rs: the reader task

\* A line of the child's stdout: empty, not valid UTF-8, not a JSON
\* document, or a JSON object.  Of an object the model keeps its `type`
\* member (an Option), whether the members its variant requires are there
\* with the right types, the content blocks of an assistant message and the
\* `result` member of a result.
StdoutLine(form, type, complete, blocks, result) ==
    [form |-> form, type |-> type, complete |-> complete, blocks |-> blocks,
     result |-> result]

EmptyLine == StdoutLine("empty", None, FALSE, <<>>, None)
NotUtf8Line == StdoutLine("not_utf8", None, FALSE, <<>>, None)
NotJsonLine == StdoutLine("not_json", None, FALSE, <<>>, None)
JsonLine(type, complete, blocks, result) ==
    StdoutLine("json", type, complete, blocks, result)

TextBlock(t) == [type |-> "text", text |-> Some(t)]
ToolUseBlock == [type |-> "tool_use", text |-> None]

\* ClaudeOutput, tagged by `type` with rename_all = "snake_case".
ClaudeOutputTags ==
    [system |-> "System", assistant |-> "Assistant", tool_use |-> "ToolUse",
     tool_result |-> "ToolResult", result |-> "Result", error |-> "Error"]

\* serde_json::from_str::<ClaudeOutput>(&line), as an Option: an object
\* without a string `type` is an error, an unlisted `type` is Unknown
\* (serde(other)), and a listed one needs its variant's members.
from_str(line) ==
    IF line.form # "json" \/ line.type = None THEN None
    ELSE IF line.type[1] \notin DOMAIN ClaudeOutputTags
    THEN Some([variant |-> "Unknown", blocks |-> <<>>, result |-> None])
    ELSE IF ~line.complete THEN None
    ELSE Some([variant |-> ClaudeOutputTags[line.type[1]], blocks |-> line.blocks,
               result |-> line.result])

SystemEvent == [type |-> "System", text |-> None]
ToolResultEvent == [type |-> "ToolResult", text |-> None]

\* The text of the first text block, as an Option.
RECURSIVE FirstText(_)
FirstText(blocks) ==
    IF blocks = <<>> THEN None
    ELSE IF Head(blocks).type = "text" THEN Head(blocks).text
    ELSE FirstText(Tail(blocks))

convert_output(output) ==
    CASE output.variant = "System" -> SystemEvent
      [] output.variant = "Assistant" ->
            IF FirstText(output.blocks) # None
            THEN TextEvent(FirstText(output.blocks)[1])
            ELSE TextEvent(<<>>)
      [] output.variant = "ToolUse" -> ToolUseEvent
      [] output.variant = "ToolResult" -> ToolResultEvent
      [] output.variant = "Result" -> ResultEvent(output.result)
      [] output.variant = "Error" -> ErrorEvent
      [] output.variant = "Unknown" -> TextEvent(<<>>)

BackendFrame ==
    <<runtime_vars, command_chan, now, conns, socket_files, p_from, p_text, p_out,
      p_done, wire>>

\* backend.spawn: the child is started, its stdout goes to a new reader task
\* and the worker gets the receiving end of a new channel.
SpawnChild(w, script) ==
    /\ backend_spawn(w, TRUE)
    /\ backend' = [script |-> script, stdout |-> script, reader |-> "running",
                   chan |-> <<>>, delivered |-> <<>>]
    /\ UNCHANGED <<runtime_vars, command_chan, now, conns, p_from, p_text, p_out,
                   p_done, wire>>

\* The worker holds output_rx from backend.spawn to the end of that turn of
\* its loop.
ReceiverAlive == \E w \in WorkerIds : workers[w].pc \in {"consume", "dispatch", "wait"}

\* One turn of the reader task's loop: next_line, then skip, send or stop.
\* tx.send waits while the channel is full.
ReaderStep ==
    /\ backend.reader = "running"
    /\ IF backend.stdout = <<>>
       THEN backend' = [backend EXCEPT !.reader = "done"]
       ELSE LET line == Head(backend.stdout)
                rest == Tail(backend.stdout)
            IN  IF line.form = "not_utf8"
                THEN backend' = [backend EXCEPT !.reader = "done", !.stdout = rest]
                ELSE IF line.form = "empty" \/ from_str(line) = None
                THEN backend' = [backend EXCEPT !.stdout = rest]
                ELSE LET agent_output == convert_output(from_str(line)[1])
                     IN  IF ~ReceiverAlive
                         THEN backend' = [backend EXCEPT !.reader = "done",
                                                         !.stdout = rest]
                         ELSE /\ Len(backend.chan) < OutputCap
                              /\ backend' =
                                    [backend EXCEPT
                                       !.stdout = rest,
                                       !.chan = Append(@, agent_output),
                                       !.reader = IF is_final(agent_output)
                                                  THEN "done" ELSE "running"]
    /\ UNCHANGED <<workers, BackendFrame>>

\* output_rx.recv() yields the oldest event in the channel.
ChanRecv(w) ==
    /\ backend.chan # <<>>
    /\ output_rx_recv(w, Head(backend.chan))
    /\ backend' = [backend EXCEPT !.chan = Tail(@),
                                  !.delivered = Append(@, Head(backend.chan))]
    /\ UNCHANGED BackendFrame

\* output_rx.recv() yields None: the channel is empty and the reader task
\* is over.
ChanClosed(w) ==
    /\ backend.chan = <<>>
    /\ backend.reader = "done"
    /\ output_rx_closed(w)
    /\ UNCHANGED <<backend, BackendFrame>>

\* What a child prints: events of every kind, lines the reader cannot use,
\* output that ends without a terminal event, and lines after one.
AssistantLine(blocks) == JsonLine(Some("assistant"), TRUE, blocks, None)
ResultLine(result) == JsonLine(Some("result"), TRUE, <<>>, result)
ErrorLine == JsonLine(Some("error"), TRUE, <<>>, None)
UnknownTypeLine == JsonLine(Some("stream_event"), FALSE, <<>>, None)

ChildScripts ==
    { <<>>,
      <<AssistantLine(<<TextBlock(CrewText)>>)>>,
      <<JsonLine(Some("system"), TRUE, <<>>, None),
        AssistantLine(<<TextBlock(CompleteText)>>),
        ResultLine(Some(CrewText))>>,
      <<UnknownTypeLine, AssistantLine(<<TextBlock(CrewText)>>), ResultLine(None)>>,
      <<NotJsonLine, AssistantLine(<<TextBlock(RelieveText)>>), ErrorLine,
        AssistantLine(<<TextBlock(CrewText)>>)>>,
      <<EmptyLine, JsonLine(None, FALSE, <<>>, None),
        JsonLine(Some("tool_use"), FALSE, <<>>, None),
        JsonLine(Some("tool_use"), TRUE, <<>>, None),
        JsonLine(Some("tool_result"), TRUE, <<>>, None),
        AssistantLine(<<ToolUseBlock>>),
        AssistantLine(<<ToolUseBlock, TextBlock(CompleteText), TextBlock(CrewText)>>),
        ResultLine(Some(CrewText)),
        AssistantLine(<<TextBlock(CrewText)>>)>>,
      <<AssistantLine(<<TextBlock(CompleteText)>>), NotUtf8Line,
        AssistantLine(<<TextBlock(CrewText)>>), ResultLine(None)>> }

NextBackend ==
    \/ \E w \in WorkerIds, outcome \in BindOutcomes : AgentNew(w, outcome)
    \/ \E w \in WorkerIds : ListenerAccept(w, "same_user")
    \/ \E w \in WorkerIds : ConnRecv(w, TRUE)
    \/ \E w \in WorkerIds, script \in ChildScripts : SpawnChild(w, script)
    \/ ReaderStep
    \/ \E w \in WorkerIds : ChanRecv(w)
    \/ \E w \in WorkerIds : ChanClosed(w)
    \/ \E w \in WorkerIds : DispatchSend(w)
    \/ \E w \in WorkerIds : DispatchDone(w)
    \/ \E w \in WorkerIds : HandleWait(w)
    \/ \E w \in WorkerIds : SenderDeliver(w)
    \/ StandaloneDrain

SpecBackend == InitAgent /\ [][NextBackend]_vars

\* ------------------------------------- transport/message.rs: the framing

\* The largest payload a frame may carry, in bytes.
MAX_MESSAGE_SIZE == 16 * 1024 * 1024

\* MessageKind and, under rename_all = "snake_case", the name each variant
\* has on the wire with that name's length in bytes.
MessageKind ==
    {"TaskAssignment", "TaskComplete", "TaskGiveUp", "Interrupt",
     "ArchitectReview", "Info", "Evaluation", "Observation"}

KindNames ==
    [TaskAssignment |-> <<"task_assignment", 15>>,
     TaskComplete |-> <<"task_complete", 13>>,
     TaskGiveUp |-> <<"task_give_up", 12>>,
     Interrupt |-> <<"interrupt", 9>>,
     ArchitectReview |-> <<"architect_review", 16>>,
     Info |-> <<"info", 4>>,
     Evaluation |-> <<"evaluation", 10>>,
     Observation |-> <<"observation", 11>>]

\* AgentRole under rename_all = "lowercase": the length of each name.
RoleLen == [manager |-> 7, architect |-> 9, developer |-> 9, scorer |-> 6]

\* The hyphenated text form of a Uuid is 36 bytes long.
UuidLen == 36

\* A string on the wire side is a sequence of pieces.  A piece is n bytes of
\* text: one character (n = 1), or a word of n bytes none of which is a quote,
\* a backslash or a control character.
Piece(ch, n) == [ch |-> ch, n |-> n]
Char(ch) == Piece(ch, 1)
QUOTE == "\""
BACKSLASH == "\\"

\* AgentMessage with every field, the id included.
AgentMessage(id, from, to, kind, content, task_id) ==
    [id |-> id, from |-> from, to |-> to, kind |-> kind, content |-> content,
     task_id |-> task_id]

\* A JSON document: a string (what stands between its quotes), a number
\* (its digits), an object (its members in order) or null.
JString(chars) == [json |-> "string", chars |-> chars]
JNumber(digits) == [json |-> "number", digits |-> digits]
JObject(members) == [json |-> "object", members |-> members]
JNull == [json |-> "null"]
Member(key, value) == [key |-> key, value |-> value]

KeyLen ==
    [id |-> 2, from |-> 4, to |-> 2, kind |-> 4, content |-> 7, task_id |-> 7,
     role |-> 4, index |-> 5]

RECURSIVE PiecesLen(_)
PiecesLen(chars) ==
    IF chars = <<>> THEN 0 ELSE Head(chars).n + PiecesLen(Tail(chars))

\* The number of bytes of the compact text of a document (json.len()).
RECURSIVE JsonSize(_)
RECURSIVE MembersSize(_)
MembersSize(members) ==
    IF members = <<>> THEN 0
    ELSE KeyLen[Head(members).key] + 3 + JsonSize(Head(members).value)
         + (IF Len(members) > 1 THEN 1 ELSE 0) + MembersSize(Tail(members))

JsonSize(v) ==
    CASE v.json = "string" -> 2 + PiecesLen(v.chars)
      [] v.json = "number" -> Len(v.digits)
      [] v.json = "object" -> 2 + MembersSize(v.members)
      [] v.json = "null" -> 4
      [] OTHER -> 0

\* serde_json writes a string with quote, backslash and line feed escaped.
escape_char_raw(c) == <<c>>

escape_char(c) ==
    CASE c.ch = QUOTE -> <<Char(BACKSLASH), Char(QUOTE)>>
      [] c.ch = BACKSLASH -> <<Char(BACKSLASH), Char(BACKSLASH)>>
      [] c.ch = NL -> <<Char(BACKSLASH), Char("n")>>
      [] OTHER -> <<c>>

RECURSIVE escape(_)
escape(s) == IF s = <<>> THEN <<>> ELSE escape_char(Head(s)) \o escape(Tail(s))

\* Reading a string back: an escape pair becomes its character; a bare quote
\* or line feed, or an unknown escape, is a syntax error (None).
RECURSIVE unescape(_, _)
unescape(chars, acc) ==
    IF chars = <<>> THEN Some(acc)
    ELSE IF Head(chars).ch = BACKSLASH
    THEN IF Len(chars) < 2 THEN None
         ELSE CASE chars[2].ch = QUOTE ->
                     unescape(Tail(Tail(chars)), Append(acc, Char(QUOTE)))
                [] chars[2].ch = BACKSLASH ->
                     unescape(Tail(Tail(chars)), Append(acc, Char(BACKSLASH)))
                [] chars[2].ch = "n" /\ chars[2].n = 1 ->
                     unescape(Tail(Tail(chars)), Append(acc, Char(NL)))
                [] OTHER -> None
    ELSE IF Head(chars).ch \in {QUOTE, NL} THEN None
    ELSE unescape(Tail(chars), Append(acc, Head(chars)))

\* An integer written in decimal.
RECURSIVE Decimal(_)
Decimal(n) ==
    IF n < 10 THEN <<DigitTokens[n + 1]>>
    ELSE Append(Decimal(n \div 10), DigitTokens[(n % 10) + 1])

\* Serialize for AgentId, MessageKind, Uuid and String.
ser_agent_id(a) ==
    JObject(<<Member("role", JString(<<Piece(a.role, RoleLen[a.role])>>)),
              Member("index", JNumber(Decimal(a.index)))>>)

ser_kind(k) == JString(<<Piece(KindNames[k][1], KindNames[k][2])>>)
ser_uuid(u) == JString(<<Piece(u, UuidLen)>>)
ser_string(s) == JString(escape(s))

\* skip_serializing_if = "Option::is_none": no task_id member for None.
ser_task_id(t) ==
    IF t = None THEN <<>> ELSE <<Member("task_id", ser_uuid(t[1]))>>

\* serde_json::to_vec(msg)
to_vec(m) ==
    JObject(<<Member("id", ser_uuid(m.id)),
              Member("from", ser_agent_id(m.from)),
              Member("to", ser_agent_id(m.to)),
              Member("kind", ser_kind(m.kind)),
              Member("content", ser_string(m.content))>>
            \o ser_task_id(m.task_id))

\* The values of the members of an object that have the key.
RECURSIVE Lookup(_, _)
Lookup(members, key) ==
    IF members = <<>> THEN <<>>
    ELSE (IF Head(members).key = key THEN <<Head(members).value>> ELSE <<>>)
         \o Lookup(Tail(members), key)

\* Deserialize: each is an Option, None for a document of the wrong shape.
de_uuid(v) ==
    IF v.json = "string" /\ Len(v.chars) = 1 /\ v.chars[1].n = UuidLen
    THEN Some(v.chars[1].ch) ELSE None

de_role(v) ==
    IF v.json = "string" /\ Len(v.chars) = 1 /\ v.chars[1].ch \in AgentRole
    THEN Some(v.chars[1].ch) ELSE None

de_index(v) == IF v.json = "number" THEN parse_u8(v.digits) ELSE None

de_agent_id(v) ==
    IF v.json # "object" THEN None
    ELSE LET role == Lookup(v.members, "role")
             index == Lookup(v.members, "index")
         IN  IF Len(role) # 1 \/ Len(index) # 1 THEN None
             ELSE IF de_role(role[1]) = None \/ de_index(index[1]) = None THEN None
             ELSE Some([role |-> de_role(role[1])[1], index |-> de_index(index[1])[1]])

de_kind(v) ==
    IF v.json = "string" /\ Len(v.chars) = 1
       /\ \E k \in MessageKind : KindNames[k][1] = v.chars[1].ch
    THEN Some(CHOOSE k \in MessageKind : KindNames[k][1] = v.chars[1].ch)
    ELSE None

de_string(v) == IF v.json = "string" THEN unescape(v.chars, <<>>) ELSE None

\* serde(default) on an Option: a missing member is None, and so is null.
de_task_id(found) ==
    IF found = <<>> THEN Some(None)
    ELSE IF Len(found) = 1 /\ found[1].json = "null" THEN Some(None)
    ELSE IF Len(found) > 1 \/ de_uuid(found[1]) = None THEN None
    ELSE Some(Some(de_uuid(found[1])[1]))

\* serde_json::from_slice::<AgentMessage>(buf), as an Option.
from_slice(v) ==
    IF v.json # "object" THEN None
    ELSE LET id == Lookup(v.members, "id")
             from == Lookup(v.members, "from")
             to == Lookup(v.members, "to")
             kind == Lookup(v.members, "kind")
             content == Lookup(v.members, "content")
             task_id == de_task_id(Lookup(v.members, "task_id"))
         IN  IF Len(id) # 1 \/ Len(from) # 1 \/ Len(to) # 1 \/ Len(kind) # 1
                \/ Len(content) # 1 \/ task_id = None
             THEN None
             ELSE IF de_uuid(id[1]) = None \/ de_agent_id(from[1]) = None
                     \/ de_agent_id(to[1]) = None \/ de_kind(kind[1]) = None
                     \/ de_string(content[1]) = None
             THEN None
             ELSE Some(AgentMessage(de_uuid(id[1])[1], de_agent_id(from[1])[1],
                                    de_agent_id(to[1])[1], de_kind(kind[1])[1],
                                    de_string(content[1])[1], task_id[1]))

\* The byte stream of a connection is a sequence of items: one byte of a
\* length prefix, or a run of payload bytes with the document they spell (a
\* fragment when the run is not one whole document).
ByteItem(b) == [item |-> "byte", value |-> [json |-> "byte", byte |-> b], size |-> 1]
PayloadItem(v) == [item |-> "payload", value |-> v, size |-> JsonSize(v)]
Fragment(n) == [item |-> "payload", value |-> [json |-> "fragment"], size |-> n]

RECURSIVE StreamSize(_)
StreamSize(stream) ==
    IF stream = <<>> THEN 0 ELSE Head(stream).size + StreamSize(Tail(stream))

\* The stream without its first n bytes.
RECURSIVE DropBytes(_, _)
DropBytes(stream, n) ==
    IF n = 0 \/ stream = <<>> THEN stream
    ELSE IF Head(stream).size <= n THEN DropBytes(Tail(stream), n - Head(stream).size)
    ELSE <<Fragment(Head(stream).size - n)>> \o Tail(stream)

\* u32::to_be_bytes and u32::from_be_bytes.  A value with the top bit set is
\* kept as its bytes: all that is asked of it is whether it exceeds the cap.
to_be_bytes(n) ==
    <<(n \div 16777216) % 256, (n \div 65536) % 256, (n \div 256) % 256, n % 256>>

from_be_bytes(b) == ((b[1] * 256 + b[2]) * 256 + b[3]) * 256 + b[4]

\* len > MAX_MESSAGE_SIZE on the reading side, len given by its four bytes.
exceeds_cap_inclusive(b) == b[1] >= 128 \/ from_be_bytes(b) >= MAX_MESSAGE_SIZE

exceeds_cap(b) == b[1] >= 128 \/ from_be_bytes(b) > MAX_MESSAGE_SIZE

PrefixItems(n) == [i \in 1..4 |-> ByteItem(to_be_bytes(n)[i])]

\* How a write on the stream can end, and how much of the buffer a failing
\* write_all had written.
WriteOutcomes == {"ok", "fail_length", "fail_payload", "fail_flush"}
PartialWrites == {"none", "most"}

\* write_message: the stream afterwards and the result.
write_message(stream, msg, outcome, part) ==
    LET json == to_vec(msg)
        len == JsonSize(json)
        prefix == PrefixItems(len)
    IN  IF len > MAX_MESSAGE_SIZE
        THEN [stream |-> stream, result |-> "too_large"]
        ELSE CASE outcome = "fail_length" ->
                    [stream |-> stream \o
                         (IF part = "none" THEN <<>> ELSE SubSeq(prefix, 1, 3)),
                     result |-> "io_error"]
               [] outcome = "fail_payload" ->
                    [stream |-> stream \o prefix \o
                         (IF part = "none" THEN <<>> ELSE <<Fragment(len - 1)>>),
                     result |-> "io_error"]
               [] outcome = "fail_flush" ->
                    [stream |-> stream \o prefix \o <<PayloadItem(json)>>,
                     result |-> "io_error"]
               [] OTHER ->
                    [stream |-> stream \o prefix \o <<PayloadItem(json)>>,
                     result |-> "ok"]

\* read_message: the result, the message, the size of the buffer it allocated
\* (None when it allocated none) and the stream it leaves.
ReadResult(result, msg, allocated, rest) ==
    [result |-> result, msg |-> msg, allocated |-> allocated, rest |-> rest]

read_message(stream) ==
    IF StreamSize(stream) < 4
    THEN ReadResult("io_error", None, None, <<>>)
    ELSE LET len_buf == [i \in 1..4 |-> stream[i].value.byte]
             body == SubSeq(stream, 5, Len(stream))
         IN  IF exceeds_cap(len_buf)
             THEN ReadResult("too_large", None, None, body)
             ELSE LET len == from_be_bytes(len_buf)
                  IN  IF StreamSize(body) < len
                      THEN ReadResult("io_error", None, Some(len), <<>>)
                      ELSE IF len > 0 /\ Head(body).size = len
                              /\ from_slice(Head(body).value) # None
                      THEN ReadResult("ok", from_slice(Head(body).value),
                                      Some(len), Tail(body))
                      ELSE ReadResult("parse_error", None, Some(len),
                                      DropBytes(body, len))

\* A frame starts where the stream starts.
Aligned(stream) ==
    \A i \in 1..Len(stream) : i <= 4 => stream[i].item = "byte"

\* The connection under observation: the messages the writing side sends,
\* then the frames the reading side takes off the stream.  Each write is
\* recorded with the number of bytes it put on the stream, each read with the
\* stream it found and the number of bytes it took.  A sender gives up the
\* connection at the first failing write, a reader at the first failing read.
WireWrite(outcome, part) ==
    /\ wire.to_write # <<>>
    /\ LET msg == Head(wire.to_write)
           w == write_message(wire.stream, msg, outcome, part)
       IN  wire' = [wire EXCEPT
               !.to_write = IF w.result = "ok" THEN Tail(@) ELSE <<>>,
               !.stream = w.stream,
               !.writes = Append(@, [msg |-> msg, result |-> w.result,
                                     written |-> StreamSize(w.stream)
                                                 - StreamSize(wire.stream)])]
    /\ UNCHANGED <<p_from, p_text, p_out, p_done, backend, runtime_vars,
                   command_chan, now, workers, conns, socket_files>>

WireRead ==
    /\ wire.to_write = <<>>
    /\ ~(wire.writes = <<>> /\ wire.stream = <<>>)
    /\ IF wire.reads = <<>> THEN TRUE
       ELSE wire.reads[Len(wire.reads)].result = "ok" /\ wire.stream # <<>>
    /\ Aligned(wire.stream)
    /\ LET r == read_message(wire.stream)
       IN  wire' = [wire EXCEPT
               !.stream = r.rest,
               !.reads = Append(@, [result |-> r.result, msg |-> r.msg,
                                    allocated |-> r.allocated,
                                    before |-> wire.stream,
                                    consumed |-> StreamSize(wire.stream)
                                                 - StreamSize(r.rest)])]
    /\ UNCHANGED <<p_from, p_text, p_out, p_done, backend, runtime_vars,
                   command_chan, now, workers, conns, socket_files>>

\* The messages sent: every kind, with and without a task, ids of one and of
\* several digits, content with the characters that are escaped, and content
\* that brings the payload to one byte under the cap, to the cap and to one
\* byte over it.
WireContents ==
    { <<>>,
      <<Char("x")>>,
      <<Char(QUOTE), Char("x"), Char(QUOTE)>>,
      <<Char(BACKSLASH), Char("n")>>,
      <<Char("x"), Char(NL), Char(BACKSLASH)>> }

WireSenders == {Manager, new_developer(2), new_developer(12), new_developer(255)}

PlainMessages ==
    {AgentMessage("id-1", from, Architect, kind, content, task_id) :
        from \in WireSenders, kind \in MessageKind, content \in WireContents,
        task_id \in {None, Some("id-2")}}

Padded(m, len) ==
    [m EXCEPT !.content = <<Piece("x", len - JsonSize(to_vec(m)))>>]

BoundaryMessages ==
    {Padded(AgentMessage("id-1", Manager, new_developer(2), "TaskAssignment", <<>>,
                         task_id), MAX_MESSAGE_SIZE + d) :
        task_id \in {None, Some("id-2")}, d \in {-1, 0, 1}}

WireMessages == PlainMessages \cup BoundaryMessages

Probe == AgentMessage("id-3", Scorer, Manager, "Observation", <<Char("x")>>, None)

WriteScripts ==
    {<<m>> : m \in WireMessages} \cup {<<m, Probe>> : m \in WireMessages}

\* Streams a peer can put on the connection: a prefix declaring a length
\* and nothing more, or followed by that many bytes or one byte fewer, none
\* of them a message; a payload that is a document but not a message, or a
\* message with a null or a repeated member; and half a prefix.
DeclaredLengths ==
    { to_be_bytes(0), to_be_bytes(1), to_be_bytes(MAX_MESSAGE_SIZE - 1),
      to_be_bytes(MAX_MESSAGE_SIZE), to_be_bytes(MAX_MESSAGE_SIZE + 1),
      <<127, 255, 255, 255>>, <<128, 0, 0, 0>>, <<255, 255, 255, 255>> }

Bytes(b) == [i \in 1..Len(b) |-> ByteItem(b[i])]

PeerStreams ==
    {Bytes(b) : b \in DeclaredLengths}
    \cup {Bytes(b) \o <<Fragment(from_be_bytes(b))>> :
            b \in {c \in DeclaredLengths :
                     c[1] < 127 /\ from_be_bytes(c) \in 1..(MAX_MESSAGE_SIZE + 1)}}
    \cup {Bytes(b) \o <<Fragment(from_be_bytes(b) - 1)>> :
            b \in {c \in DeclaredLengths :
                     c[1] < 127 /\ from_be_bytes(c) \in 2..MAX_MESSAGE_SIZE}}
    \cup {Bytes(b) \o <<Fragment(MAX_MESSAGE_SIZE + 1)>> :
            b \in {c \in DeclaredLengths : c[1] >= 127}}
    \cup {Bytes(to_be_bytes(JsonSize(v))) \o <<PayloadItem(v)>> :
            v \in {JObject(<<Member("id", ser_uuid("id-1"))>>),
                   JObject(to_vec(Probe).members \o <<Member("task_id", JNull)>>),
                   JObject(to_vec(Probe).members \o
                           <<Member("content", ser_string(<<>>))>>)}}
    \cup {<<ByteItem(0), ByteItem(0)>>}

InitWire ==
    /\ RuntimeNew
    /\ ParseIdle
    /\ BackendIdle
    /\ \/ \E script \in WriteScripts :
            wire = [to_write |-> script, stream |-> <<>>, writes |-> <<>>, reads |-> <<>>]
       \/ \E stream \in PeerStreams :
            wire = [to_write |-> <<>>, stream |-> stream, writes |-> <<>>, reads |-> <<>>]

NextWire ==
    \/ \E outcome \in WriteOutcomes, part \in PartialWrites : WireWrite(outcome, part)
    \/ WireRead

SpecWire == InitWire /\ [][NextWire]_vars

\* ------------------------------- agent.rs: accept_message on the wire

\* What a peer leaves on a connection before it closes it: nothing at all
\* (the status probe connects and drops the connection), half a prefix, a
\* frame cut short, a frame whose payload is no JSON document or no message,
\* a prefix declaring more than the cap, and a whole frame.
ClosedAtOnce == <<>>
TruncatedFrame == Bytes(to_be_bytes(JsonSize(to_vec(Probe)))) \o
                      <<Fragment(JsonSize(to_vec(Probe)) - 1)>>
MalformedFrame == Bytes(to_be_bytes(2)) \o <<Fragment(2)>>
NotAMessageFrame ==
    Bytes(to_be_bytes(JsonSize(JObject(<<Member("id", ser_uuid("id-1"))>>)))) \o
        <<PayloadItem(JObject(<<Member("id", ser_uuid("id-1"))>>))>>
OversizeFrame == Bytes(to_be_bytes(MAX_MESSAGE_SIZE + 1)) \o
                     <<Fragment(MAX_MESSAGE_SIZE + 1)>>
WholeFrame == write_message(<<>>, Probe, "ok", "none").stream

ConnStreams ==
    {ClosedAtOnce, <<ByteItem(0), ByteItem(0)>>, TruncatedFrame, MalformedFrame,
     NotAMessageFrame, OversizeFrame, WholeFrame}

\* listener.accept() returns a connection that carries what the peer wrote.
AcceptConn(w, stream) ==
    /\ listener_accept(w, "same_user")
    /\ wire' = [wire EXCEPT !.stream = stream]
    /\ UNCHANGED <<runtime_vars, command_chan, now, p_from, p_text, p_out, p_done,
                   backend>>

\* conn.recv(): read_message on the accepted connection.
RecvConn(w) ==
    /\ LET r == read_message(wire.stream)
       IN  /\ conn_recv(w, r.result = "ok")
           /\ wire' = [wire EXCEPT
                   !.stream = r.rest,
                   !.reads = Append(@, [result |-> r.result, msg |-> r.msg,
                                        allocated |-> r.allocated,
                                        before |-> wire.stream,
                                        consumed |-> StreamSize(wire.stream)
                                                     - StreamSize(r.rest)])]
    /\ UNCHANGED <<runtime_vars, command_chan, now, conns, p_from, p_text, p_out,
                   p_done, backend>>

NextRecv ==
    \/ \E w \in WorkerIds, outcome \in BindOutcomes : AgentNew(w, outcome)
    \/ \E w \in WorkerIds, peer \in Peers \ {"same_user"} : ListenerAccept(w, peer)
    \/ \E w \in WorkerIds, stream \in ConnStreams : AcceptConn(w, stream)
    \/ \E w \in WorkerIds : RecvConn(w)
    \/ \E w \in WorkerIds, ok \in BOOLEAN : BackendSpawn(w, ok)
    \/ \E w \in WorkerIds, output \in BackendEvents : OutputRecv(w, output)
    \/ \E w \in WorkerIds : OutputClosed(w)
    \/ \E w \in WorkerIds : DispatchSend(w)
    \/ \E w \in WorkerIds : DispatchDone(w)
    \/ \E w \in WorkerIds : HandleWait(w)
    \/ \E w \in WorkerIds : SenderDeliver(w)
    \/ StandaloneDrain

SpecRecv == InitAgent /\ [][NextRecv]_vars

\* ------------------------------------------------------------ claims

Commands(outs) == SelectSeq(outs, LAMBDA o : o.type = "Command")
Messages(outs) == SelectSeq(outs, LAMBDA o : o.type = "Message")

\* The supervisor takes the oldest command off the channel in this step.
HandlesHead ==
    /\ runtime_pc = "running"
    /\ command_chan # <<>>
    /\ command_chan' = Tail(command_chan)

HeadIs(type) == command_chan # <<>> /\ Head(command_chan).cmd.type = type

\* C1: developer_count is 1, 2 or 3 in every reachable supervisor state,
\* whatever SetCrewSize counts (0..255), RelieveManager and TaskUpdate
\* commands were handled.
C1_DeveloperCountInRange == developer_count \in {1, 2, 3}

C1_Witness ==
    /\ developer_count = 3
    /\ manager_generation >= 1
    /\ task_log # <<>>
    /\ HeadIs("SetCrewSize") /\ Head(command_chan).cmd.count = 255

\* C2: a connection from a peer with another uid is dropped and the worker
\* goes back to accepting; its main loop does not end.
C2_ForeignPeerResumesAccept ==
    [][\A w \in WorkerIds :
          ListenerAccept(w, "different_user")
              => w \in DOMAIN workers' /\ workers'[w].pc = "accept"]_vars

\* C3: when backend.spawn fails the message is dropped and the worker goes
\* back to accepting; its main loop does not end.
C3_SpawnFailureResumesAccept ==
    [][\A w \in WorkerIds :
          BackendSpawn(w, FALSE)
              => w \in DOMAIN workers' /\ workers'[w].pc = "accept"]_vars

\* C4: the parser's outputs respect the from-role column: SetCrewSize only
\* from a Manager, RelieveManager only from a Scorer, an interrupt message
\* only from an Architect.
C4_UnauthorizedSectionsDropped ==
    p_done =>
        \A i \in 1..Len(p_out) :
            LET o == p_out[i]
            IN  /\ o.type = "Command" /\ o.cmd.type = "SetCrewSize"
                     => p_from.role = "manager"
                /\ o.type = "Command" /\ o.cmd.type = "RelieveManager"
                     => p_from.role = "scorer"
                /\ o.type = "Message" /\ o.msg.kind = "interrupt"
                     => p_from.role = "architect"
                /\ o.type = "Command" => o.cmd.type \in {"SetCrewSize", "RelieveManager"}

C4_Witness ==
    /\ p_done
    /\ p_from.role = "developer"
    /\ p_text = <<"CREW:", SP, "3", NL, "RELIEVE:", SP, "x", NL, "INTERRUPT:", SP, "x">>
    /\ p_out = <<>>

\* The supervisor's view of the developer pool and of the Manager worker.
DevHandles ==
    [a \in {x \in DOMAIN agent_handles : x.role = "developer"} |-> agent_handles[a]]

ManagerHandle ==
    IF Manager \in DOMAIN agent_handles THEN Some(agent_handles[Manager]) ELSE None

\* In this step a worker of this role is spawned or aborted.
SpawnsOrAborts(role) ==
    \/ \E w \in DOMAIN workers' \ WorkerIds : w[1].role = role
    \/ \E w \in WorkerIds \cap DOMAIN workers' :
          w[1].role = role /\ ~workers[w].cancelled /\ workers'[w].cancelled

CrewChanges ==
    \/ developer_count' # developer_count
    \/ DevHandles' # DevHandles
    \/ SpawnsOrAborts("developer")

ManagerChanges ==
    \/ manager_generation' # manager_generation
    \/ last_relieve' # last_relieve
    \/ ManagerHandle' # ManagerHandle
    \/ SpawnsOrAborts("manager")

\* C5: in the running system only a command that a Manager worker's output
\* produced changes developer_count or the developer workers, only one that
\* a Scorer worker's output produced changes manager_generation,
\* last_relieve or the Manager worker, and no other worker's output ever
\* puts a command on the channel.
C5_OnlyPrivilegedOutputChangesRuntime ==
    /\ [](\A i \in 1..Len(command_chan) :
             LET c == command_chan[i]
             IN  \/ c.cmd.type = "SetCrewSize" /\ c.origin.role = "manager"
                 \/ c.cmd.type = "RelieveManager" /\ c.origin.role = "scorer")
    /\ [][runtime_pc = "running" =>
             /\ CrewChanges =>
                    HandlesHead /\ Head(command_chan).origin.role = "manager"
             /\ ManagerChanges =>
                    HandlesHead /\ Head(command_chan).origin.role = "scorer"]_vars

C5_Witness ==
    \E w \in WorkerIds :
        /\ w[1].role = "developer"
        /\ workers[w].pc = "dispatch"
        /\ workers[w].output = Some(TextEvent(CrewText))
        /\ workers[w].pending = <<>>
        /\ developer_count = 1
        /\ command_chan = <<>>

\* The kind the routing table gives a prefix that yields a message.
TableKind(prefix) ==
    CASE prefix \in {"TASK:", "APPROVED:"} -> "task_assignment"
      [] prefix = "REJECTED:" -> "architect_review"
      [] prefix = "INTERRUPT:" -> "interrupt"
      [] prefix = "COMPLETE:" -> "task_complete"
      [] prefix = "BLOCKED:" -> "task_give_up"

\* The sections of the text that yield a message for this sender, in order.
MessageSections(from, text) ==
    SelectSeq(extract_sections(text),
              LAMBDA sec :
                  \/ sec.prefix \in {"TASK:", "APPROVED:", "REJECTED:", "COMPLETE:", "BLOCKED:"}
                  \/ sec.prefix = "INTERRUPT:" /\ from.role = "architect")

LegalAgentId(id) ==
    \/ id.role \in {"manager", "architect", "scorer"} /\ id.index = 0
    \/ id.role = "developer" /\ id.index \in 0..2

\* C6: every message the parser produces goes to a legal AgentId (a
\* singleton with index 0 or a developer with index 0..2) and has the kind
\* the routing table gives its section's prefix.
C6_LegalRecipientAndTableKind ==
    p_done =>
        LET msgs == Messages(p_out)
            secs == MessageSections(p_from, p_text)
        IN  /\ Len(msgs) = Len(secs)
            /\ \A i \in 1..Len(msgs) :
                   /\ LegalAgentId(msgs[i].msg.to)
                   /\ msgs[i].msg.kind = TableKind(secs[i].prefix)

\* C7 as stated: no message the parser produces is addressed to its sender.
C7_NeverSelfAddressed ==
    p_done =>
        \A i \in 1..Len(p_out) :
            p_out[i].type = "Message" => p_out[i].msg.to # p_out[i].msg.from

\* C7 amended: a message the parser produces is addressed to its sender only
\* when the sender is the section's own target: a Manager's COMPLETE:,
\* BLOCKED: or REJECTED:, an Architect's TASK:, a developer's APPROVED:.
\* An interrupt, and any message from a Scorer, is never self-addressed.
C7_SelfAddressedOnlyToOwnTarget ==
    p_done =>
        \A i \in 1..Len(p_out) :
            LET o == p_out[i]
            IN  o.type = "Message" /\ o.msg.to = o.msg.from =>
                    \/ /\ p_from.role = "manager"
                       /\ o.msg.kind \in {"task_complete", "task_give_up", "architect_review"}
                    \/ p_from.role = "architect" /\ o.msg.kind = "task_assignment"
                    \/ p_from.role = "developer" /\ o.msg.kind = "task_assignment"

C7_Witness ==
    /\ p_done
    /\ p_from = Manager
    /\ \E i \in 1..Len(p_out) :
          /\ p_out[i].type = "Message"
          /\ p_out[i].msg.kind = "task_complete"
          /\ p_out[i].msg.to = Manager
          /\ p_out[i].msg.from = Manager

\* The request at the head of the channel falls inside the cooldown window.
RelieveInsideCooldown ==
    /\ HeadIs("RelieveManager")
    /\ last_relieve # None
    /\ now - last_relieve[1] < 60

C9_AcceptedExactlyOutsideCooldown ==
    [][HandlesHead /\ HeadIs("RelieveManager") =>
          IF last_relieve = None \/ now - last_relieve[1] >= 60
          THEN manager_generation' = manager_generation + 1 /\ last_relieve' = Some(now)
          ELSE manager_generation' = manager_generation /\ last_relieve' = last_relieve]_vars

\* Relieves at t=0 and t=61 were accepted (one at t=30 could only be rejected).
C9_Witness ==
    /\ manager_generation = 2
    /\ now = 61
    /\ last_relieve = Some(61)

\* C10: manager_generation starts at 0, changes only by +1 and only when a
\* RelieveManager is accepted, and equals the number of replacement
\* managers spawned so far.
C10_GenerationCountsRelieves ==
    /\ manager_generation = 0
    /\ [](runtime_pc = "running" => manager_generation = managers_spawned - 1)
    /\ [][/\ manager_generation' >= manager_generation
          /\ manager_generation' # manager_generation =>
                /\ manager_generation' = manager_generation + 1
                /\ HandlesHead /\ HeadIs("RelieveManager")
                /\ ~RelieveInsideCooldown
          /\ HandlesHead /\ HeadIs("RelieveManager") /\ ~RelieveInsideCooldown =>
                manager_generation' = manager_generation + 1]_vars

C10_Witness ==
    /\ manager_generation = 2
    /\ managers_spawned = 3
    /\ developer_count = 2
    /\ task_log # <<>>

\* The worker holds a bound AgentListener.
ListenerBound(w) == workers[w].pc \notin {"new", "ended"}

\* C11: every worker whose listener is bound and that has not been aborted
\* has the socket file its bind created present at its path, under every
\* interleaving of an aborted worker's teardown with the bind of its
\* replacement.
C11_BoundListenerHasSocketFile ==
    \A w \in WorkerIds :
        ListenerBound(w) /\ ~workers[w].cancelled =>
            w[1] \in DOMAIN socket_files /\ socket_files[w[1]] = w[2]

\* The developer worker tasks that are running: spawned, not over, and not
\* aborted.
AliveDevelopers ==
    {w \in WorkerIds : /\ w[1].role = "developer"
                       /\ workers[w].pc # "ended"
                       /\ ~workers[w].cancelled}

\* C12: once the supervisor runs, developer_count is the number of alive
\* developer workers in every reachable state, also after a developer
\* worker has ended on its own.
C12_DeveloperCountIsAliveDevelopers ==
    runtime_pc = "running" => developer_count = Cardinality(AliveDevelopers)

\* C13: a worker handles one message at a time.  It never has two backend
\* children alive; it accepts a connection only when it has none; a child
\* is spawned only for a message just received, one per message; and the
\* only way to the next accept after a spawn is through wait().
C13_OneMessageAtATime ==
    /\ [](\A w \in WorkerIds : workers[w].children <= 1)
    /\ [][\A w \in WorkerIds :
             /\ (\E peer \in Peers : ListenerAccept(w, peer)) =>
                    workers[w].children = 0
             /\ w \in DOMAIN workers' =>
                    /\ workers'[w].pc = "spawn" /\ workers[w].pc # "spawn" =>
                           workers[w].pc = "recv"
                    /\ workers'[w].children > workers[w].children =>
                           /\ workers[w].pc = "spawn"
                           /\ workers'[w].children = workers[w].children + 1
                    /\ workers[w].pc = "spawn" /\ workers'[w].pc \notin {"spawn", "ended"} =>
                           workers'[w].children = workers[w].children + 1
                    /\ workers'[w].pc = "accept" /\ workers[w].children > 0 =>
                           workers[w].pc = "wait" /\ workers'[w].children = 0]_vars

\* A worker is handling its second message, with that message's child alive.
C13_Witness ==
    \E w \in WorkerIds :
        /\ conns = 2
        /\ workers[w].pc = "consume"
        /\ workers[w].children = 1

\* What handling this command does to the supervisor's state.
EffectOf(cmd) ==
    CASE cmd.type = "SetCrewSize" ->
            /\ developer_count' = clamp(cmd.count, 1, 3)
            /\ UNCHANGED <<task_log, manager_generation, last_relieve>>
      [] cmd.type = "RelieveManager" ->
            /\ manager_generation' \in {manager_generation, manager_generation + 1}
            /\ manager_generation' # manager_generation =>
                   workers'[<<Manager, agent_handles'[Manager]>>].briefing[1].reason
                       = cmd.reason
            /\ UNCHANGED <<task_log, developer_count>>
      [] cmd.type = "TaskUpdate" ->
            /\ task_log' = Append(task_log, [agent |-> cmd.agent, status |-> cmd.status,
                                             summary |-> cmd.summary])
            /\ UNCHANGED <<developer_count, manager_generation, last_relieve>>

\* C14: the supervisor handles one command per step, always the oldest one
\* in the channel; the channel only grows at its tail and shrinks at its
\* head, so that commands (of one sender too) are handled in the order
\* they were sent.
C14_CommandsHandledInArrivalOrder ==
    [][/\ command_chan' # command_chan =>
              \/ command_chan # <<>> /\ command_chan' = Tail(command_chan)
              \/ /\ Len(command_chan') = Len(command_chan) + 1
                 /\ SubSeq(command_chan', 1, Len(command_chan)) = command_chan
       /\ runtime_pc = "running" =>
              /\ <<developer_count, task_log, manager_generation, last_relieve,
                   agent_handles>>' #
                 <<developer_count, task_log, manager_generation, last_relieve,
                   agent_handles>> => HandlesHead
              /\ HandlesHead => EffectOf(Head(command_chan).cmd)]_vars

\* Two commands of one sender wait in the channel; handling the second
\* before the first would show in the state.
C14_Witness ==
    /\ Len(command_chan) = 2
    /\ command_chan[1].origin = command_chan[2].origin
    /\ command_chan[1].cmd = TaskUpdate(new_developer(0), "Completed", <<"x">>)
    /\ command_chan[2].cmd = SetCrewSize(3)
    /\ developer_count = 1
    /\ task_log = <<>>
    /\ manager_generation = 1

\* The target the specification gives an APPROVED: section: developer-d for
\* `developer-` followed by a single digit d that is a valid index, and
\* developer-0 in every other case.
ApprovedTarget(content) ==
    IF /\ Len(content) >= 2
       /\ content[1] = "developer-"
       /\ IsDigit(content[2])
       /\ Len(content) >= 3 => ~IsDigit(content[3])
       /\ to_digit(content[2]) < MaxDevelopers
    THEN new_developer(to_digit(content[2]))
    ELSE new_developer(0)

\* C15: the message of an APPROVED: section goes to developer-d when the
\* content begins with `developer-` and a single digit d that is a valid
\* index, and to developer-0 in every other case (digits 3..9, several
\* digits, malformed suffixes).
C15_ApprovedTargetResolution ==
    p_done =>
        LET msgs == Messages(p_out)
            secs == MessageSections(p_from, p_text)
        IN  /\ Len(msgs) = Len(secs)
            /\ \A i \in 1..Len(msgs) :
                   secs[i].prefix = "APPROVED:" =>
                       msgs[i].msg.to = ApprovedTarget(secs[i].content)

\* outs is what the sections of the text yield for this sender, the dropped
\* sections left out and the others in the order of their sections.
InSectionOrder(from, text, outs) ==
    LET secs == extract_sections(text)
        result(i) == parse_section(from, secs[i].prefix, secs[i].content)
        kept == {i \in 1..Len(secs) : result(i) # None}
        place(i) == Cardinality({k \in kept : k <= i})
    IN  /\ Len(outs) = Cardinality(kept)
        /\ \A i \in kept : outs[place(i)] = result(i)[1]

\* C16: the outputs parsed from a text block are the outputs of its
\* sections in the order the sections appear, without the dropped ones, and
\* dispatch_parsed sends them one by one in that order, each to the tail of
\* its channel, before the worker goes on.
C16_OutputsInSectionOrder ==
    [][\A w \in WorkerIds \cap DOMAIN workers' :
          LET a == workers[w]
              b == workers'[w]
          IN  /\ a.pc = "consume" /\ b.pc = "dispatch" =>
                     InSectionOrder(w[1], b.output[1].text[1], b.pending)
              /\ a.pc = "dispatch" /\ b.pending # a.pending =>
                     /\ a.pending # <<>>
                     /\ b.pending = Tail(a.pending)
                     /\ LET o == Head(a.pending)
                        IN  IF o.type = "Message"
                            THEN /\ b.outbox = Append(a.outbox, o.msg)
                                 /\ command_chan' = command_chan
                            ELSE /\ command_chan' =
                                        Append(command_chan, [cmd |-> o.cmd, origin |-> w[1]])
                                 /\ b.outbox = a.outbox
              /\ a.pc = "dispatch" /\ b.pc # "dispatch" => a.pending = <<>>]_vars

\* A Manager's text block with six sections, three of them dropped: the
\* first two outputs are sent, the third waits.
C16_Witness ==
    \E w \in WorkerIds :
        /\ w[1] = Manager
        /\ workers[w].pc = "dispatch"
        /\ workers[w].output = Some(TextEvent(MixedText))
        /\ Len(workers[w].pending) = 1
        /\ workers[w].pending[1].type = "Message"
        /\ workers[w].pending[1].msg.kind = "task_complete"
        /\ Len(workers[w].outbox) = 1
        /\ workers[w].outbox[1].kind = "task_assignment"
        /\ Len(command_chan) = 1
        /\ command_chan[1].cmd = SetCrewSize(3)

\* The lines on which a section starts.
SectionStarts(ls) ==
    {i \in 1..Len(ls) : recognized_prefix(trim_start(ls[i])) # None}

\* The first section start after line s, or the line after the last one.
NextStart(ls, s) ==
    IF \E j \in SectionStarts(ls) : j > s
    THEN CHOOSE j \in SectionStarts(ls) :
             j > s /\ \A k \in SectionStarts(ls) : k > s => j <= k
    ELSE Len(ls) + 1

RECURSIVE FollowingLines(_, _, _)
FollowingLines(ls, first, last) ==
    IF first > last THEN <<>>
    ELSE <<NL>> \o ls[first] \o FollowingLines(ls, first + 1, last)

\* The section that starts on line s: the remainder of the line is taken
\* without the whitespace around it.
SectionAt(ls, s) ==
    LET line == trim_start(ls[s])
        remainder == trim(Tail(line))
    IN  [prefix |-> Head(line),
         content |-> IF Head(line) \in {"CREW:", "RELIEVE:"}
                     THEN remainder
                     ELSE trim_end(remainder
                                   \o FollowingLines(ls, s + 1, NextStart(ls, s) - 1))]

\* C17: there is one section per line whose whitespace-stripped start is a
\* recognized prefix, in line order.  A CREW: or RELIEVE: section holds the
\* remainder of its own line only, so that following lines without a prefix
\* are in no section; any other section holds the remainder of its line and
\* every following line up to the next section start or the end of the
\* text, without trailing whitespace.
C17_SectionExtraction ==
    p_done =>
        LET ls == lines(p_text)
            secs == extract_sections(p_text)
            starts == SectionStarts(ls)
        IN  /\ Len(secs) = Cardinality(starts)
            /\ \A s \in starts :
                   secs[Cardinality({k \in starts : k <= s})] = SectionAt(ls, s)

\* A single-line section, a line that is in no section, and a section
\* whose content ends in whitespace before the trim.
C17_Witness ==
    /\ p_done
    /\ p_from = Manager
    /\ p_text = <<"CREW:", SP, "3", NL, "x", NL, "COMPLETE:", SP, "x", SP>>
    /\ p_out = <<CommandOut(SetCrewSize(3)),
                 MessageOut(NewMessage(Manager, Manager, "task_complete", <<"x">>))>>

C19_WireRoundTrip ==
    \A i \in 1..Len(wire.reads) :
        (i <= Len(wire.writes) /\ wire.writes[i].result = "ok") =>
            LET m == wire.writes[i].msg
                r == wire.reads[i]
            IN  /\ r.result = "ok"
                /\ r.msg # None
                /\ r.msg[1].id = m.id
                /\ r.msg[1].from = m.from
                /\ r.msg[1].to = m.to
                /\ r.msg[1].kind = m.kind
                /\ r.msg[1].content = m.content
                /\ r.msg[1].task_id = m.task_id
                /\ (m.task_id = None <=> r.msg[1].task_id = None)
                /\ r.consumed = wire.writes[i].written
                /\ r.consumed = 4 + JsonSize(to_vec(m))

\* Two messages were written and read back, the first with a task and with
\* content that needs escaping, and the stream is used up.
C19_Witness ==
    /\ Len(wire.writes) = 2
    /\ Len(wire.reads) = 2
    /\ wire.stream = <<>>
    /\ wire.writes[1].msg.task_id # None
    /\ wire.writes[1].msg.content = <<Char(QUOTE), Char("x"), Char(QUOTE)>>
    /\ wire.writes[1].msg.from = new_developer(255)
    /\ wire.reads[1].msg = Some(wire.writes[1].msg)
    /\ wire.reads[2].msg = Some(Probe)

\* C20: write_message refuses a payload of more than 16*1024*1024 bytes
\* without writing a byte; read_message refuses a declared length above
\* 16*1024*1024 having allocated no buffer and taken no byte after the
\* prefix; a declared length of exactly 16*1024*1024 is not refused.
C20_CapEnforcedOnBothSides ==
    /\ \A i \in 1..Len(wire.writes) :
          LET w == wire.writes[i]
          IN  IF JsonSize(to_vec(w.msg)) > 16 * 1024 * 1024
              THEN w.result = "too_large" /\ w.written = 0
              ELSE w.result # "too_large"
    /\ \A i \in 1..Len(wire.reads) :
          LET r == wire.reads[i]
          IN  StreamSize(r.before) >= 4 =>
                LET b == [k \in 1..4 |-> r.before[k].value.byte]
                IN  IF b[1] >= 128 \/ from_be_bytes(b) > 16 * 1024 * 1024
                    THEN r.result = "too_large" /\ r.allocated = None
                         /\ r.consumed = 4
                    ELSE /\ r.result # "too_large"
                         /\ r.allocated = Some(from_be_bytes(b))
                         /\ (i <= Len(wire.writes) /\ wire.writes[i].result = "ok"
                              /\ from_be_bytes(b) = 16 * 1024 * 1024)
                             => r.result = "ok"

\* A read met a prefix declaring 16*1024*1024 + 1 bytes with that many bytes
\* behind it, and refused it.
C20_Witness ==
    /\ Len(wire.reads) = 1
    /\ wire.reads[1].before =
           Bytes(to_be_bytes(16 * 1024 * 1024 + 1)) \o <<Fragment(16 * 1024 * 1024 + 1)>>
    /\ wire.reads[1].result = "too_large"
    /\ wire.stream = <<Fragment(16 * 1024 * 1024 + 1)>>

\* The ids of the three singleton workers and of the first n developers.
SingletonIds == {Manager, Architect, Scorer}
DevIds(n) == {new_developer(i) : i \in 0..(n - 1)}

\* The tasks spawned, and the tasks aborted, in this step.
NewTasks == DOMAIN workers' \ DOMAIN workers
AbortedTasks ==
    {w \in WorkerIds \cap DOMAIN workers' : ~workers[w].cancelled /\ workers'[w].cancelled}

\* C22: once the supervisor runs, the keys of its handle map are Manager,
\* Architect, Scorer and developer-0 .. developer-(developer_count-1).
\* Startup spawns exactly those four for developer_count = 1; a growing
\* SetCrewSize spawns and inserts exactly the indices current..count; a
\* shrinking one removes and aborts exactly the indices count..current; and
\* a handle that a command takes out of the map or replaces is aborted.
C22_HandleMapMatchesCrew ==
    /\ [](runtime_pc = "running" =>
             DOMAIN agent_handles = SingletonIds \cup DevIds(developer_count))
    /\ [][runtime_pc = "new" /\ runtime_pc' = "running" =>
             /\ developer_count' = 1
             /\ DOMAIN agent_handles' = SingletonIds \cup {new_developer(0)}
             /\ Cardinality(NewTasks) = 4
             /\ NewTasks = {<<a, agent_handles'[a]>> : a \in DOMAIN agent_handles'}]_vars
    /\ [][HandlesHead /\ HeadIs("SetCrewSize") =>
             LET requested == Head(command_chan).cmd.count
                 count == IF requested < 1 THEN 1 ELSE IF requested > 3 THEN 3 ELSE requested
                 current == developer_count
                 grown == {new_developer(i) : i \in current..(count - 1)}
                 shrunk == {new_developer(i) : i \in count..(current - 1)}
             IN  /\ developer_count' = count
                 /\ count > current =>
                       /\ DOMAIN agent_handles' = DOMAIN agent_handles \cup grown
                       /\ \A a \in DOMAIN agent_handles :
                             agent_handles'[a] = agent_handles[a]
                       /\ NewTasks = {<<a, agent_handles'[a]>> : a \in grown}
                       /\ Cardinality(NewTasks) = count - current
                       /\ AbortedTasks = {}
                 /\ count < current =>
                       /\ DOMAIN agent_handles' = DOMAIN agent_handles \ shrunk
                       /\ \A a \in DOMAIN agent_handles' :
                             agent_handles'[a] = agent_handles[a]
                       /\ NewTasks = {}
                       /\ AbortedTasks = {<<a, agent_handles[a]>> : a \in shrunk}]_vars
    /\ [][HandlesHead =>
             \A a \in DOMAIN agent_handles :
                 (a \notin DOMAIN agent_handles' \/ agent_handles'[a] # agent_handles[a])
                     => <<a, agent_handles[a]>> \in AbortedTasks]_vars

\* The pool has just shrunk from three developers to one: developer-1 and
\* developer-2 are aborted and out of the map, and a command to grow the
\* pool again is waiting.
C22_Witness ==
    /\ runtime_pc = "running"
    /\ developer_count = 1
    /\ DOMAIN agent_handles = SingletonIds \cup {new_developer(0)}
    /\ \E n \in 1..MaxTasks : <<new_developer(1), n>> \in WorkerIds
                              /\ workers[<<new_developer(1), n>>].cancelled
    /\ \E n \in 1..MaxTasks : <<new_developer(2), n>> \in WorkerIds
                              /\ workers[<<new_developer(2), n>>].cancelled
    /\ manager_generation = 1

\* C27: handling an accepted RelieveManager aborts the current Manager task
\* and takes its handle out of the map, then spawns exactly one new Manager
\* worker, whose prompt carries a briefing with the reason, the generation
\* after the increment and the current developer_count; the handles and
\* tasks of Architect, Scorer and the developers, developer_count and
\* task_log stay as they are.
C27_AcceptedRelieveReplacesOnlyManager ==
    [][HandlesHead /\ HeadIs("RelieveManager") /\ ~RelieveInsideCooldown =>
          LET old == <<Manager, agent_handles[Manager]>>
              new == <<Manager, agent_handles'[Manager]>>
          IN  /\ Manager \in DOMAIN agent_handles'
              /\ new # old
              /\ AbortedTasks = {old}
              /\ NewTasks = {new}
              /\ workers'[new].pc = "new" /\ ~workers'[new].cancelled
              /\ workers'[new].briefing # None
              /\ workers'[new].briefing[1].reason = Head(command_chan).cmd.reason
              /\ workers'[new].briefing[1].generation = manager_generation + 1
              /\ workers'[new].briefing[1].generation = manager_generation'
              /\ workers'[new].briefing[1].developers = developer_count
              /\ DOMAIN agent_handles' = DOMAIN agent_handles
              /\ \A a \in DOMAIN agent_handles \ {Manager} :
                    agent_handles'[a] = agent_handles[a]
              /\ \A w \in WorkerIds \ {old} : w \in DOMAIN workers' /\ workers'[w] = workers[w]
              /\ UNCHANGED <<developer_count, task_log>>]_vars

\* The second replacement Manager, spawned while three developers run and
\* the task log has a record; the Manager it replaced is aborted.
C27_Witness ==
    /\ manager_generation = 2
    /\ developer_count = 3
    /\ task_log # <<>>
    /\ Manager \in DOMAIN agent_handles
    /\ <<Manager, agent_handles[Manager]>> \in WorkerIds
    /\ LET m == workers[<<Manager, agent_handles[Manager]>>]
       IN  /\ m.briefing # None
           /\ m.briefing[1].generation = 2
           /\ m.briefing[1].developers = 3
    /\ \E w \in WorkerIds : w[1] = Manager /\ workers[w].cancelled

\* C28: the task log only grows at its end.  Handling a TaskUpdate appends
\* exactly one record, the command's, whatever the state, and changes
\* nothing else; no other step changes the log, so no record is ever
\* removed, moved or modified.
C28_TaskLogAppendOnly ==
    [][/\ HandlesHead /\ HeadIs("TaskUpdate") =>
              LET cmd == Head(command_chan).cmd
              IN  /\ Len(task_log') = Len(task_log) + 1
                  /\ SubSeq(task_log', 1, Len(task_log)) = task_log
                  /\ task_log'[Len(task_log')] =
                         [agent |-> cmd.agent, status |-> cmd.status,
                          summary |-> cmd.summary]
                  /\ UNCHANGED <<developer_count, manager_generation, last_relieve,
                                 agent_handles, workers, managers_spawned, runtime_pc>>
       /\ task_log' # task_log => HandlesHead /\ HeadIs("TaskUpdate")
       /\ Len(task_log') >= Len(task_log)
       /\ SubSeq(task_log', 1, Len(task_log)) = task_log]_vars

\* The log holds the reports of two workers in the order they were handled,
\* after a resize and a relieve were handled in between.
C28_Witness ==
    /\ task_log = <<[agent |-> Architect, status |-> "Blocked", summary |-> <<"x">>],
                    [agent |-> new_developer(0), status |-> "Completed",
                     summary |-> <<"x">>]>>
    /\ developer_count = 2
    /\ manager_generation = 1

\* C30: handling a SetCrewSize whose count, clamped to 1..3, is the current
\* developer_count changes nothing: no worker is spawned or aborted, and the
\* handle map and the RuntimeState stay as they are.
C30_SameCrewSizeIsNoOp ==
    [][HandlesHead /\ HeadIs("SetCrewSize") =>
          LET requested == Head(command_chan).cmd.count
              count == IF requested < 1 THEN 1 ELSE IF requested > 3 THEN 3 ELSE requested
          IN  count = developer_count =>
                 /\ NewTasks = {} /\ AbortedTasks = {}
                 /\ UNCHANGED <<developer_count, task_log, manager_generation,
                                last_relieve, agent_handles, workers,
                                managers_spawned, runtime_pc>>]_vars

\* A count of 0 was handled with one developer, and counts of 4 and 255
\* wait with three: the next two commands to be handled keep the pool.
C30_Witness ==
    /\ runtime_pc = "running"
    /\ developer_count = 3
    /\ NoAbortPending
    /\ Len(command_chan) = 2
    /\ command_chan[1].cmd = SetCrewSize(4)
    /\ command_chan[2].cmd = SetCrewSize(255)
    /\ DOMAIN agent_handles = SingletonIds \cup DevIds(3)

\* No text of up to MaxLines sample lines, from any sender, makes the parser
\* emit a TaskUpdate command.
ParserEmitsNoTaskUpdate ==
    \A from \in AgentIds, text \in SampleTexts :
        LET outs == parse_agent_output(from, text)
        IN  \A i \in 1..Len(outs) :
                outs[i].type = "Command" => outs[i].cmd.type # "TaskUpdate"

\* C29: the parser never emits a TaskUpdate command, so in the running
\* system none is ever waiting to be sent or handled, task_log is empty in
\* every reachable state, and the briefing of every replacement Manager
\* says `No task history recorded.`.
C29_TaskLogStaysEmpty ==
    /\ ParserEmitsNoTaskUpdate
    /\ task_log = <<>>
    /\ \A i \in 1..Len(command_chan) : command_chan[i].cmd.type # "TaskUpdate"
    /\ \A w \in WorkerIds :
          /\ \A i \in 1..Len(workers[w].pending) :
                workers[w].pending[i].type = "Command"
                    => workers[w].pending[i].cmd.type # "TaskUpdate"
          /\ workers[w].briefing # None =>
                workers[w].briefing[1].history = <<"No task history recorded.">>

\* A worker's COMPLETE: section has become a message for the Manager, and a
\* replacement Manager has been briefed.
C29_Witness ==
    /\ manager_generation = 1
    /\ \E w \in WorkerIds : w[1] = Manager /\ workers[w].briefing # None
    /\ \E w \in WorkerIds :
          /\ workers[w].outbox # <<>>
          /\ workers[w].outbox[1].kind = "task_complete"
          /\ workers[w].outbox[1].to = Manager

\* The events the worker is to receive from a child that prints these
\* lines: the event of each line that is one, Text("") for a line whose
\* `type` is unknown, nothing for an empty line or one that cannot be
\* parsed, up to and including the first terminal event.
RECURSIVE EventsOfLines(_)
EventsOfLines(script) ==
    IF script = <<>> THEN <<>>
    ELSE LET line == Head(script)
             known == /\ line.form = "json" /\ line.type # None
                      /\ line.type[1] \in {"system", "assistant", "tool_use",
                                           "tool_result", "result", "error"}
             unknown == line.form = "json" /\ line.type # None /\ ~known
         IN  IF unknown THEN <<TextEvent(<<>>)>> \o EventsOfLines(Tail(script))
             ELSE IF known /\ line.complete
             THEN IF line.type[1] \in {"result", "error"}
                  THEN <<convert_output(from_str(line)[1])>>
                  ELSE <<convert_output(from_str(line)[1])>> \o EventsOfLines(Tail(script))
             ELSE EventsOfLines(Tail(script))

IsPrefix(s, t) == Len(s) <= Len(t) /\ SubSeq(t, 1, Len(s)) = s

\* C21: a line with an unknown `type` reaches the worker as Text(""), a line
\* that cannot be parsed is skipped, and neither closes the stream: the
\* worker receives the child's events in order, and when its loop over the
\* stream is over it has received every event up to and including the first
\* terminal one.
C21_BadLinesDoNotCloseStream ==
    /\ IsPrefix(backend.delivered, EventsOfLines(backend.script))
    /\ \A w \in WorkerIds :
          workers[w].pc = "wait" => backend.delivered = EventsOfLines(backend.script)

\* C23: within one backend invocation the parser is given the text of Text
\* events only, the worker sends a message or a command only while it
\* dispatches a Text event, and once it has received a Result or an Error it
\* receives and sends nothing more from that invocation.
C23_OnlyTextParsedNothingAfterTerminal ==
    [][\A w \in WorkerIds \cap DOMAIN workers' :
          LET sends == \/ Len(workers'[w].outbox) > Len(workers[w].outbox)
                       \/ Len(command_chan') > Len(command_chan)
              terminal == \E i \in 1..Len(backend.delivered) :
                              backend.delivered[i].type \in {"Result", "Error"}
          IN  /\ workers'[w].pending # <<>> =>
                    /\ workers'[w].pc = "dispatch"
                    /\ workers'[w].output # None
                    /\ workers'[w].output[1].type = "Text"
              /\ (workers[w].pc = "consume" /\ workers'[w].pc = "dispatch") =>
                    /\ backend'.delivered # backend.delivered
                    /\ backend'.delivered[Len(backend'.delivered)].type = "Text"
                    /\ workers'[w].pending =
                          parse_agent_output(w[1],
                              backend'.delivered[Len(backend'.delivered)].text[1])
              /\ sends =>
                    /\ workers[w].pc = "dispatch"
                    /\ workers[w].output[1].type = "Text"
                    /\ ~terminal
              /\ (terminal /\ workers[w].pc # "spawn") =>
                    /\ backend'.delivered = backend.delivered
                    /\ workers'[w].pending = <<>>
                    /\ workers'[w].pc \notin {"consume", "dispatch"}]_vars

\* The Manager's child printed a Text with a CREW: section, a Result that
\* carries the same text, and one more Text; the worker has left its loop
\* with one command sent and the last line still unread.
C23_Witness ==
    \E w \in WorkerIds :
        /\ w[1] = Manager
        /\ workers[w].pc = "wait"
        /\ Len(backend.delivered) >= 2
        /\ backend.delivered[Len(backend.delivered)] = ResultEvent(Some(CrewText))
        /\ backend.stdout = <<AssistantLine(<<TextBlock(CrewText)>>)>>
        /\ backend.chan = <<>>
        /\ Len(command_chan) = 1 /\ command_chan[1].cmd = SetCrewSize(3)

\* C24: a failing recv on an accepted connection (the peer closed it at
\* once, as the status probe does, or left a truncated frame, a payload that
\* is no message, or a prefix declaring more than the cap) spawns no backend
\* and ends nothing: the worker is back at accept with its listener bound and
\* everything else as it was, and a backend runs only after a frame was read.
FailingStreams ==
    {ClosedAtOnce, TruncatedFrame, MalformedFrame, NotAMessageFrame, OversizeFrame}

LastRead == wire.reads[Len(wire.reads)]

C24_RecvFailureKeepsServing ==
    /\ [](/\ \A stream \in FailingStreams : read_message(stream).result # "ok"
          /\ read_message(ClosedAtOnce).result = "io_error"
          /\ read_message(TruncatedFrame).result = "io_error"
          /\ read_message(MalformedFrame).result = "parse_error"
          /\ read_message(OversizeFrame).result = "too_large")
    /\ [](\A w \in WorkerIds :
            (workers[w].pc \in {"spawn", "consume", "dispatch", "wait"}
                \/ workers[w].children > 0)
                => wire.reads # <<>> /\ LastRead.result = "ok")
    /\ [][\A w \in WorkerIds :
            (workers[w].pc = "recv" /\ wire.reads' # wire.reads
                /\ wire.reads'[Len(wire.reads')].result # "ok")
                => /\ w \in DOMAIN workers'
                   /\ workers' = [workers EXCEPT ![w].pc = "accept"]
                   /\ workers[w].children = 0
                   /\ ListenerBound(w)'
                   /\ socket_files' = socket_files
                   /\ conns' = conns
                   /\ command_chan' = command_chan
                   /\ backend' = backend]_vars

\* A second connection was accepted after the read on the first one failed,
\* and no backend child was started.
C24_Witness ==
    \E w \in WorkerIds :
        /\ workers[w].pc = "recv"
        /\ workers[w].children = 0
        /\ conns = 2
        /\ Len(wire.reads) = 1
        /\ wire.reads[1].result # "ok"
        /\ wire.reads[1].before \in FailingStreams

\* AgentConnection::connect succeeds when a task listens at the recipient's
\* socket path.
connect(to) ==
    /\ to \in DOMAIN socket_files
    /\ <<to, socket_files[to]>> \in WorkerIds
    /\ ListenerBound(<<to, socket_files[to]>>)

StandaloneTasks == {<<new_singleton(role), 1>> : role \in AgentRole}

\* C25: a message whose recipient cannot be connected to leaves the outbound
\* channel and nothing else changes (it is not put back, not sent elsewhere,
\* and no task ends unless the worker was over and this was its last
\* message); an outbox only ever grows at its tail and shrinks at its head;
\* and the sender keeps running: a full outbox does not stay full.
C25_UndeliverableDroppedSenderContinues ==
    /\ [][\A w \in WorkerIds :
            LET box == workers[w].outbox
            IN  /\ (w \in DOMAIN workers' /\ workers'[w].outbox # box)
                    => \/ box # <<>> /\ workers'[w].outbox = Tail(box)
                       \/ /\ workers'[w].outbox # <<>>
                          /\ box = SubSeq(workers'[w].outbox, 1,
                                          Len(workers'[w].outbox) - 1)
                /\ (w \notin DOMAIN workers' /\ box # <<>>)
                    => workers[w].pc = "ended" /\ Len(box) = 1
                /\ (box # <<>> /\ ~connect(Head(box).to)
                        /\ (w \notin DOMAIN workers' \/ workers'[w].outbox = Tail(box)))
                    => /\ \A x \in WorkerIds \ {w} :
                            x \in DOMAIN workers' /\ workers'[x] = workers[x]
                       /\ w \in DOMAIN workers'
                            => workers' = [workers EXCEPT ![w].outbox = Tail(box)]
                       /\ UNCHANGED <<command_chan, socket_files, conns, runtime_vars>>
         ]_vars
    /\ \A w \in StandaloneTasks :
          (w \in WorkerIds /\ Len(workers[w].outbox) = OutLimit)
              ~> (w \notin WorkerIds \/ Len(workers[w].outbox) < OutLimit)

\* Two messages wait in the outbound channel, the older one for a recipient
\* nobody listens for, while the worker goes on with its loop.
C25_Witness ==
    \E w \in WorkerIds :
        /\ Len(workers[w].outbox) = 2
        /\ ~connect(workers[w].outbox[1].to)
        /\ workers[w].outbox[1] # workers[w].outbox[2]
        /\ workers[w].pc # "ended"

\* C26: a worker about to put a parsed message on its outbound channel never
\* has to wait for room in it.
C26_DispatchNeverWaits ==
    \A w \in WorkerIds :
        (Runs(w, "dispatch") /\ workers[w].pending # <<>>
            /\ Head(workers[w].pending).type = "Message")
            => Len(workers[w].outbox) < OutLimit

\* C34: whatever commands arrive, the tasks of Architect, Scorer and
\* developer-0 spawned at startup keep their handles and are never aborted:
\* a SetCrewSize aborts only developers of index 1 and above, a
\* RelieveManager only the Manager, and a TaskUpdate nothing.
Permanent == {Architect, Scorer, new_developer(0)}

C34_PermanentWorkersNeverAborted ==
    /\ [](runtime_pc = "running" =>
             \A a \in Permanent :
                 /\ a \in DOMAIN agent_handles
                 /\ agent_handles[a] = 1
                 /\ <<a, 1>> \in WorkerIds
                 /\ ~workers[<<a, 1>>].cancelled)
    /\ [][HandlesHead /\ HeadIs("SetCrewSize") =>
             \A w \in AbortedTasks : w[1].role = "developer" /\ w[1].index >= 1]_vars
    /\ [][HandlesHead /\ HeadIs("RelieveManager") =>
             \A w \in AbortedTasks : w[1] = Manager]_vars
    /\ [][HandlesHead /\ HeadIs("TaskUpdate") => AbortedTasks = {}]_vars

\* The Manager has been relieved twice and the pool has shrunk to one
\* developer, developer-1 being aborted, while the first tasks of Architect,
\* Scorer and developer-0 run on.
C34_Witness ==
    /\ runtime_pc = "running"
    /\ manager_generation = 2
    /\ developer_count = 1
    /\ \E n \in 1..MaxTasks : <<new_developer(1), n>> \in WorkerIds
                              /\ workers[<<new_developer(1), n>>].cancelled
    /\ \A a \in Permanent : <<a, 1>> \in WorkerIds /\ ~workers[<<a, 1>>].cancelled

\* The content of a CREW: section is a decimal number in 0..255: digits
\* only, after an optional plus sign, with a value of at most 255.
RECURSIVE ValueOf(_)
ValueOf(digits) ==
    IF digits = <<>> THEN 0
    ELSE 10 * ValueOf(SubSeq(digits, 1, Len(digits) - 1))
             + (CHOOSE d \in 0..9 : DigitTokens[d + 1] = digits[Len(digits)])

Unsigned(content) ==
    IF content # <<>> /\ Head(content) = "+" THEN Tail(content) ELSE content

IsCrewCount(content) ==
    /\ Unsigned(content) # <<>>
    /\ \A i \in 1..Len(Unsigned(content)) :
          Unsigned(content)[i] \in {"0", "1", "2", "3", "4", "5", "6", "7", "8", "9"}
    /\ ValueOf(Unsigned(content)) <= 255

RECURSIVE WithoutBadCrew(_)
WithoutBadCrew(sections) ==
    IF sections = <<>> THEN <<>>
    ELSE IF Head(sections).prefix = "CREW:" /\ ~IsCrewCount(Head(sections).content)
         THEN WithoutBadCrew(Tail(sections))
         ELSE <<Head(sections)>> \o WithoutBadCrew(Tail(sections))

RECURSIVE CrewCountsOf(_)
CrewCountsOf(sections) ==
    IF sections = <<>> THEN <<>>
    ELSE IF Head(sections).prefix = "CREW:" /\ IsCrewCount(Head(sections).content)
         THEN <<ValueOf(Unsigned(Head(sections).content))>> \o CrewCountsOf(Tail(sections))
         ELSE CrewCountsOf(Tail(sections))

RECURSIVE CountsIn(_)
CountsIn(outs) ==
    IF outs = <<>> THEN <<>>
    ELSE IF Head(outs).type = "Command" /\ Head(outs).cmd.type = "SetCrewSize"
         THEN <<Head(outs).cmd.count>> \o CountsIn(Tail(outs))
         ELSE CountsIn(Tail(outs))

\* C31: of a Manager's text block, the CREW: sections whose content is no
\* decimal number in 0..255 leave no trace in the output: the output is
\* what the block gives with those sections taken out, every other section
\* included, and its SetCrewSize commands are the counts of the remaining
\* CREW: sections, in order.
C31_BadCrewDroppedOthersKept ==
    (p_done /\ p_from = Manager) =>
        LET sections == extract_sections(p_text)
        IN  /\ p_out = FilterMapSections(Manager, WithoutBadCrew(sections))
            /\ CountsIn(p_out) = CrewCountsOf(sections)
            /\ Len(p_out) = Len(WithoutBadCrew(sections))

\* A Manager's block with a CREW: section above 255, one followed by a
\* word, and a TASK: section, which is the only output.
C31_Witness ==
    /\ p_done
    /\ p_from = Manager
    /\ p_text = <<"CREW:", SP, "2", "5", "6", NL, "TASK:", SP, "x", NL,
                  "CREW:", SP, "3", SP, "x">>
    /\ Len(p_out) = 1
    /\ p_out[1].type = "Message"

\* C33: an abort leaves the messages a worker has queued where they are.
\* From then on the outbox of the aborted worker only loses its oldest
\* message, one delivery at a time, the worker's record going with the last
\* one; and every such outbox is drained in the end.
C33_AbortLeavesSenderRunning ==
    /\ [][\A w \in AbortedTasks : workers'[w].outbox = workers[w].outbox]_vars
    /\ [][\A w \in WorkerIds :
            LET box == workers[w].outbox
            IN  (box # <<>> /\ (workers[w].cancelled \/ workers[w].pc = "ended"))
                    => IF w \in DOMAIN workers'
                       THEN workers'[w].outbox \in {box, Tail(box)}
                       ELSE workers[w].pc = "ended" /\ Len(box) = 1]_vars
    /\ \A w \in {t \in AllTasks : t[1] \in AbortableIds} :
          (w \in WorkerIds /\ workers[w].cancelled /\ workers[w].outbox # <<>>)
              ~> (w \notin WorkerIds)

\* The Manager was relieved, or developer-1 removed from the pool, with two
\* different messages queued: its task is over, its handle belongs to
\* nobody or to its replacement, and its sender has both messages to send.
C33_Witness ==
    \E w \in WorkerIds :
        /\ w[1] \in AbortableIds
        /\ workers[w].pc = "ended"
        /\ Len(workers[w].outbox) = 2
        /\ workers[w].outbox[1] # workers[w].outbox[2]
        /\ (w[1] \in DOMAIN agent_handles => agent_handles[w[1]] # w[2])

\* ------------------------- agent.rs: senders that wait for their peers

\* Two agents started on their own, a Manager and an Architect, that share
\* the socket directory.  BULK stands for a run of text longer than the send
\* buffer of a socket: wire::write_message of a frame that fits the buffer
\* returns whether or not the peer reads, and of a longer one only once the
\* peer has accepted the connection and reads it.
BULK == "BULK"

fits_send_buffer(msg) == \A i \in 1..Len(msg.content) : msg.content[i] # BULK

\* The task listening at the recipient's path is in accept_message.
Accepting(to) ==
    /\ connect(to)
    /\ workers[<<to, socket_files[to]>>].pc \in {"accept", "recv"}

\* send_to_agent returns: connect failed, or the frame was written.
send_to_agent_returns(msg) ==
    ~connect(msg.to) \/ fits_send_buffer(msg) \/ Accepting(msg.to)

\* One turn of the sender task's loop, which lasts as long as send_to_agent.
SenderSend(w) ==
    /\ w \in WorkerIds
    /\ workers[w].outbox # <<>>
    /\ send_to_agent_returns(Head(workers[w].outbox))
    /\ SenderDeliver(w)

TaskBlock ==
    <<"TASK:", SP, BULK, NL, "TASK:", SP, "x", NL, "TASK:", SP, "y">>
RejectBlock ==
    <<"REJECTED:", SP, BULK, NL, "REJECTED:", SP, "x", NL, "REJECTED:", SP, "y">>
QueueEvents == {TextEvent(TaskBlock), TextEvent(RejectBlock), ResultEvent(None)}

InitQueues ==
    /\ ParseIdle
    /\ WireIdle
    /\ BackendIdle
    /\ runtime_pc = "standalone"
    /\ developer_count = 1
    /\ task_log = <<>>
    /\ manager_generation = 0
    /\ last_relieve = None
    /\ agent_handles = <<>>
    /\ command_chan = <<>>
    /\ now = 0
    /\ managers_spawned = 0
    /\ conns = 0
    /\ socket_files = <<>>
    /\ workers = (<<Manager, 1>> :> NewWorker(None)) @@ (<<Architect, 1>> :> NewWorker(None))

NextQueues ==
    \/ \E w \in WorkerIds : AgentNew(w, "bound")
    \/ \E w \in WorkerIds : ListenerAccept(w, "same_user")
    \/ \E w \in WorkerIds : ConnRecv(w, TRUE)
    \/ \E w \in WorkerIds : BackendSpawn(w, TRUE)
    \/ \E w \in WorkerIds, output \in QueueEvents : OutputRecv(w, output)
    \/ \E w \in WorkerIds : DispatchSend(w)
    \/ \E w \in WorkerIds : DispatchDone(w)
    \/ \E w \in WorkerIds : HandleWait(w)
    \/ \E w \in WorkerIds : SenderSend(w)

SpecQueues == InitQueues /\ [][NextQueues]_vars

\* A worker that waits for room in its outbound channel while its sender
\* waits for a peer that is not in accept_message.
BlockedOnPeer(w) ==
    /\ Runs(w, "dispatch")
    /\ workers[w].pending # <<>>
    /\ Head(workers[w].pending).type = "Message"
    /\ Len(workers[w].outbox) = OutLimit
    /\ ~send_to_agent_returns(Head(workers[w].outbox))

\* C32: no two workers ever wait for room in their full outbound channels
\* while each one's sender waits for the other, which is busy with its
\* backend and does not accept.
C32_NoQueueDeadlock ==
    ~(\E w1, w2 \in WorkerIds :
        /\ w1 # w2
        /\ BlockedOnPeer(w1)
        /\ BlockedOnPeer(w2)
        /\ Head(workers[w1].outbox).to = w2[1]
        /\ Head(workers[w2].outbox).to = w1[1])

====
